---- MODULE Spec2Model ----
(***************************************************************************)
(* Verification model of the orifice pricing engine:                       *)
(*   pricing_engine.py  (calculate_quote, _qty_multiplier,                 *)
(*                       _ups_rule_shipping_cents)                         *)
(*   pricing_config.py  (the module pricing_engine imports as cfg)         *)
(*   tuning_knobs.py    (the module api_app imports as cfg)                *)
(*   api_app.py         (_restore_cfg_baseline, _apply_cfg_from_db_config, *)
(*                       _calculate_quote_with_db_knobs, /quote,           *)
(*                       /checkout/create, /checkout/cart/create,          *)
(*                       /config/active, /admin/config,                    *)
(*                       /admin/config/reset, stripe_webhook,              *)
(*                       _assign_order_number)                             *)
(*                                                                         *)
(* Representation of Python values.                                        *)
(*  - A float that is a dictionary key or a request field is the decimal   *)
(*    literal it was written as, held as an integer count of its last      *)
(*    decimal place: thickness and lengths in 1/1000 inch, bore tolerance  *)
(*    in 1/1000 inch, prices in 1/100000 dollar, density in 1/1000 lb/in3, *)
(*    lead-time multipliers in 1/10, discount multipliers in 1/100.        *)
(*  - A float that is computed is an IEEE-754 binary64 value [m, e] of     *)
(*    value m * 2^e with 2^52 <= m < 2^53 (m an unbounded natural held as  *)
(*    a little-endian sequence of base-10000 digits; zero has the empty    *)
(*    mantissa).  A literal is the double nearest to its decimal, and      *)
(*    every sum, product and quotient is rounded to the nearest double,    *)
(*    ties to even; round(v, n) is the decimal nearest to the double.      *)
(*  - A module is a record of its attributes; an attribute the module does *)
(*    not define is a field the record does not have.                      *)
(*  - A JSON object is a function from its keys; a key that is left out is *)
(*    outside the function's domain.                                       *)
(***************************************************************************)
EXTENDS Integers, Sequences, FiniteSets, TLC

VARIABLES
    args,       \* the arguments of the call, or the inputs a specification draws
    ret,        \* what a direct call produced
    cfg,        \* api_app.cfg: the attributes of module tuning_knobs
    db_config,  \* the config_json of the AppConfig row "active" (or NoRow)
    lock,       \* _CFG_LOCK: 0 when free, else the request holding it
    req,        \* per request thread: route, position, QuoteInputs, override, outcome
    admin,      \* per handler of a configuration route: position, value to store
    stripe_sessions,  \* the ids of the Stripe checkout sessions created
    orders,     \* table orders: order_number by stripe_session_id of its rows
    hook        \* per webhook execution: position, session, the loaded Order

quoteVars == <<args, ret, cfg, db_config, lock, req, admin>>

orderVars == <<stripe_sessions, orders, hook>>

vars == <<args, ret, cfg, db_config, lock, req, admin, stripe_sessions, orders, hook>>

(***************************************************************************)
(* Arithmetic on unbounded naturals (digits base 10000, least first).      *)
(***************************************************************************)
Base == 10000

\* The element of a one-element set. The({ F(v) : v \in {e} }) is F of the
\* value of e: an assignment v = e followed by the statements F that read v.
The(S) == CHOOSE element \in S : TRUE

RECURSIVE BOfInt(_)
BOfInt(n) == IF n = 0 THEN <<>> ELSE <<n % Base>> \o BOfInt(n \div Base)

RECURSIVE BToInt(_)
BToInt(a) == IF a = <<>> THEN 0 ELSE Head(a) + Base * BToInt(Tail(a))

RECURSIVE BNorm(_)
BNorm(a) == IF a = <<>> THEN <<>>
            ELSE IF a[Len(a)] = 0 THEN BNorm(SubSeq(a, 1, Len(a) - 1)) ELSE a

BHead(a) == IF a = <<>> THEN 0 ELSE Head(a)
BTail(a) == IF a = <<>> THEN <<>> ELSE Tail(a)

RECURSIVE BAddC(_, _, _)
BAddC(a, b, c) ==
    IF a = <<>> /\ b = <<>> THEN BOfInt(c)
    ELSE LET x == BHead(a) + BHead(b) + c
         IN  <<x % Base>> \o BAddC(BTail(a), BTail(b), x \div Base)

BAdd(a, b) == BAddC(a, b, 0)

RECURSIVE BMulI(_, _, _)
BMulI(a, k, c) ==
    IF a = <<>> THEN BOfInt(c)
    ELSE LET x == Head(a) * k + c
         IN  <<x % Base>> \o BMulI(Tail(a), k, x \div Base)

BShift(a) == IF a = <<>> THEN <<>> ELSE <<0>> \o a

RECURSIVE BMul(_, _)
BMul(a, b) == IF a = <<>> \/ b = <<>> THEN <<>>
              ELSE BAdd(BNorm(BMulI(a, Head(b), 0)), BShift(BMul(a, Tail(b))))

RECURSIVE BLessFrom(_, _, _)
BLessFrom(a, b, i) == IF i = 0 THEN FALSE
                      ELSE IF a[i] # b[i] THEN a[i] < b[i]
                      ELSE BLessFrom(a, b, i - 1)

BLess(a, b) == IF Len(a) # Len(b) THEN Len(a) < Len(b)
               ELSE BLessFrom(a, b, Len(a))

BLeq(a, b) == ~BLess(b, a)

RECURSIVE BPow10(_)
BPow10(k) == IF k = 0 THEN <<1>> ELSE BNorm(BMulI(BPow10(k - 1), 10, 0))

(***************************************************************************)
(* Python floats: IEEE-754 binary64.  A positive double is m * 2^e with    *)
(* 2^52 <= m < 2^53 (m a digit sequence), zero is m = <<>>; every          *)
(* operation rounds its exact result to 53 significant bits, ties to even. *)
(* The values of the program are never negative and stay far from the      *)
(* ends of the exponent range.                                             *)
(***************************************************************************)
RECURSIVE IntLog2(_)
IntLog2(q) == IF q <= 1 THEN 0 ELSE 1 + IntLog2(q \div 2)

RECURSIVE BPow2(_)
BPow2(k) == IF k < 13 THEN <<2 ^ k>>
            ELSE The({ BNorm(BMulI(p, 8192, 0)) : p \in {BPow2(k - 13)} })

RECURSIVE BPow5(_)
BPow5(k) == IF k < 5 THEN <<5 ^ k>>
            ELSE The({ BNorm(BMulI(p, 3125, 0)) : p \in {BPow5(k - 5)} })

Pow2Table == [k \in 0..110 |-> BPow2(k)]

\* n / 2^s = n * 5^s * 10^pad / 10000^c with c = ceil(s / 4): the factor of n
\* for every shift s
ShiftScale == [s \in 0..72 |-> BMul(BPow5(s), BPow10(4 * ((s + 3) \div 4) - s))]

\* half of 10000^c
HalfUnit(c) == [i \in 1..c |-> IF i = c THEN 5000 ELSE 0]

\* n / 2^s rounded to an integer, ties to even
BShiftRound(n, s) ==
    IF s = 0 THEN n
    ELSE The({ The({ IF BLess(HalfUnit(c), r) \/ (r = HalfUnit(c) /\ BHead(q) % 2 = 1)
                     THEN BAdd(q, <<1>>) ELSE q
                     : q \in {IF Len(t) > c THEN SubSeq(t, c + 1, Len(t)) ELSE <<>>},
                       r \in {IF Len(t) > c THEN BNorm(SubSeq(t, 1, c)) ELSE t} })
               : t \in {BMul(ShiftScale[s], n)}, c \in {(s + 3) \div 4} })

\* n / 2^s rounded up to an integer
BShiftCeil(n, s) ==
    IF s = 0 THEN n
    ELSE The({ The({ IF r # <<>> THEN BAdd(q, <<1>>) ELSE q
                     : q \in {IF Len(t) > c THEN SubSeq(t, c + 1, Len(t)) ELSE <<>>},
                       r \in {IF Len(t) > c THEN BNorm(SubSeq(t, 1, c)) ELSE t} })
               : t \in {BMul(ShiftScale[s], n)}, c \in {(s + 3) \div 4} })

\* the digits i..1 of a divided by the integer d (d * Base < 2^31), r the
\* remainder so far: quotient digits and final remainder
RECURSIVE BShortDiv(_, _, _, _)
BShortDiv(a, d, i, r) ==
    IF i = 0 THEN [q |-> <<>>, r |-> r]
    ELSE The({ The({ [q |-> rest.q \o <<cur \div d>>, r |-> rest.r]
                     : rest \in {BShortDiv(a, d, i - 1, cur % d)} })
               : cur \in {r * Base + a[i]} })

\* a / d rounded to an integer, ties to even
BRoundDivI(a, d) ==
    The({ The({ IF 2 * s.r > d \/ (2 * s.r = d /\ BHead(q) % 2 = 1)
                THEN BAdd(q, <<1>>) ELSE q
                : q \in {BNorm(s.q)} })
          : s \in {BShortDiv(a, d, Len(a), 0)} })

DZero == [m |-> <<>>, e |-> 0]

\* a rounded mantissa that reached 2^53 moves to the next exponent
DCarry(m, e) == IF m = Pow2Table[53] THEN [m |-> Pow2Table[52], e |-> e + 1]
                ELSE [m |-> m, e |-> e]

\* float(i) for an integer i >= 0
DOfInt(i) == IF i = 0 THEN DZero
             ELSE The({ [m |-> BMul(BOfInt(i), Pow2Table[52 - k]), e |-> k - 52]
                        : k \in {IntLog2(i)} })

\* the k < 0 with 2^k <= num / den < 2^(k+1), searched downwards from k
RECURSIVE NegLog2(_, _, _)
NegLog2(num, den, k) == IF num * (2 ^ (0 - k)) >= den THEN k ELSE NegLog2(num, den, k - 1)

\* the float nearest to num / den: a float literal, or int / int
DLiteral(num, den) ==
    IF num = 0 THEN DZero
    ELSE The({ DCarry(BRoundDivI(BMul(BOfInt(num), Pow2Table[52 - k]), den), k - 52)
               : k \in {IF num >= den THEN IntLog2(num \div den)
                        ELSE NegLog2(num, den, 0 - 1)} })

\* the float literal v * 10^-k, e.g. DDec(314, 2) is 3.14
DDec(v, k) == DLiteral(v, 10 ^ k)

DMul(a, b) ==
    IF a.m = <<>> \/ b.m = <<>> THEN DZero
    ELSE The({ The({ DCarry(BShiftRound(p, s), x.e + y.e + s)
                     : s \in {IF BLeq(Pow2Table[105], p) THEN 53 ELSE 52} })
               : x \in {a}, y \in {b}, p \in {BMul(a.m, b.m)} })

\* a / d for a whole number d >= 1 (d * Base < 2^31)
DDivInt(a, d) ==
    IF a.m = <<>> THEN DZero
    ELSE The({ The({ DCarry(BRoundDivI(BMul(x.m, Pow2Table[s]), d), x.e - s)
                     : s \in {IF BLeq(BMul(BOfInt(d), Pow2Table[52]), BMul(x.m, Pow2Table[j]))
                              THEN j ELSE j + 1} })
               : x \in {a}, j \in {IntLog2(d)} })

\* a + b for a.e >= b.e, both positive
DAddOrdered(a, b) ==
    The({ IF dd > 54 THEN x
          ELSE The({ The({ DCarry(BShiftRound(n, s), y.e + s)
                           : s \in {IF BLeq(Pow2Table[53 + dd], n) THEN dd + 1 ELSE dd} })
                     : n \in {BAdd(BMul(x.m, Pow2Table[dd]), y.m)} })
          : x \in {a}, y \in {b}, dd \in {a.e - b.e} })

DAdd(a, b) == IF a.m = <<>> THEN b
              ELSE IF b.m = <<>> THEN a
              ELSE IF a.e >= b.e THEN DAddOrdered(a, b) ELSE DAddOrdered(b, a)

\* a < b
DLess(a, b) == IF b.m = <<>> THEN FALSE
               ELSE IF a.m = <<>> THEN TRUE
               ELSE IF a.e # b.e THEN a.e < b.e
               ELSE BLess(a.m, b.m)

DLeq(a, b) == ~DLess(b, a)

\* max(a, b): Python keeps the first argument unless a later one is greater
DMax(a, b) == IF DLess(a, b) THEN b ELSE a

\* int(round(a))
DRoundInt(a) == IF a.m = <<>> THEN 0
                ELSE IF a.e >= 0 THEN BToInt(BMul(a.m, Pow2Table[a.e]))
                ELSE BToInt(BShiftRound(a.m, 0 - a.e))

\* math.ceil(a)
DCeil(a) == IF a.m = <<>> THEN 0
            ELSE IF a.e >= 0 THEN BToInt(BMul(a.m, Pow2Table[a.e]))
            ELSE IF 0 - a.e > 52 THEN 1
            ELSE BToInt(BShiftCeil(a.m, 0 - a.e))

\* round(a, places) as a count of units of 10^-places: the decimal nearest to
\* the exact binary value, ties to even
DRound(a, places) ==
    IF a.m = <<>> THEN 0
    ELSE IF a.e >= 0 THEN BToInt(BMul(BMul(a.m, Pow2Table[a.e]), BPow10(places)))
    ELSE IF 0 - a.e > 72 THEN 0
    ELSE BToInt(BShiftRound(BMul(a.m, BPow10(places)), 0 - a.e))

(***************************************************************************)
(* pricing_config.py: the module pricing_engine.py imports as cfg.         *)
(* It defines no DENSITY_LB_PER_IN3 and no WEIGHT_MULTIPLIER_BY_MATERIAL.  *)
(***************************************************************************)
pricing_config ==
    [ PRICE_PER_SQ_IN |->
        [ m \in {"304", "316", "Carbon Steel", "Monel", "Hastelloy"} |->
            CASE m = "304"          -> (125 :> 22000  @@ 250 :> 42500  @@ 375 :> 46000)
              [] m = "316"          -> (125 :> 27000  @@ 250 :> 44000  @@ 375 :> 58000)
              [] m = "Carbon Steel" -> (125 :> 9000   @@ 250 :> 10000  @@ 375 :> 13000)
              [] m = "Monel"        -> (125 :> 278000 @@ 250 :> 667000)
              [] m = "Hastelloy"    -> (125 :> 358000 @@ 250 :> 754000 @@ 375 :> 1402000) ],
      LASER_PER_LINEAR_IN    |-> 826,
      MILL_LABOR_PER_HR      |-> 150,
      MILL_SPEED_IPM         |-> 28,
      CHAMFER_SPEED_IPM      |-> 28,
      LOAD_TIME_MINS         |-> 6,
      INSPECTION_MINS_BY_TOL |-> (5 :> 6 @@ 2 :> 12 @@ 1 :> 18),
      LEAD_TIME_MULTIPLIER   |-> (7 :> 23 @@ 14 :> 16 @@ 21 :> 10),
      QTY_DISCOUNT_TIERS     |->
        << [min_qty |-> 1,  multiplier |-> 100],
           [min_qty |-> 5,  multiplier |-> 97],
           [min_qty |-> 10, multiplier |-> 95],
           [min_qty |-> 25, multiplier |-> 92],
           [min_qty |-> 50, multiplier |-> 90] >> ]

(***************************************************************************)
(* tuning_knobs.py: the module api_app.py imports as cfg.                  *)
(***************************************************************************)
\* tuning_knobs.py 11-30: the price table as written, before the filter
TK_PRICE_PER_SQ_IN_RAW ==
    [ m \in {"304", "316", "Carbon Steel"} |->
        CASE m = "304"          -> (120 :> 13020 @@ 250 :> 25640 @@ 375 :> 38140 @@ 500 :> 63070)
          [] m = "316"          -> (120 :> 18680 @@ 250 :> 37630 @@ 375 :> 57100 @@ 500 :> 87730)
          [] m = "Carbon Steel" -> (120 :> 4785  @@ 250 :> 7444  @@ 375 :> 11065 @@ 500 :> 15030) ]

TK_WEIGHT_MULTIPLIER_BY_MATERIAL ==
    ("304" :> 106 @@ "316" :> 106 @@ "Carbon Steel" :> 100)

TK_MATERIAL_ENABLED ==
    ("304" :> TRUE @@ "316" :> TRUE @@ "Carbon Steel" :> TRUE
        @@ "Monel" :> FALSE @@ "Hastelloy" :> FALSE)

TK_THICKNESS_ENABLED_BY_MATERIAL ==
    [ m \in {"304", "316", "Carbon Steel", "Monel", "Hastelloy"} |->
        IF m = "Monel" THEN (125 :> TRUE @@ 250 :> TRUE @@ 500 :> FALSE)
        ELSE (125 :> TRUE @@ 250 :> TRUE @@ 375 :> TRUE @@ 500 :> TRUE) ]

\* dict.get(key, default)
DictGet(d, k, default) == IF k \in DOMAIN d THEN d[k] ELSE default

\* tuning_knobs._is_thickness_enabled: a material without a thickness map has
\* every priced thickness enabled
_is_thickness_enabled(material, thickness) ==
    IF ~DictGet(TK_MATERIAL_ENABLED, material, FALSE) THEN FALSE
    ELSE IF material \notin DOMAIN TK_THICKNESS_ENABLED_BY_MATERIAL THEN TRUE
    ELSE DictGet(TK_THICKNESS_ENABLED_BY_MATERIAL[material], thickness, FALSE)

\* tuning_knobs.py 74-83: PRICE_PER_SQ_IN = _filtered_price
TK_PRICE_PER_SQ_IN ==
    LET filtered_th(mat) ==
            [ t \in { t \in DOMAIN TK_PRICE_PER_SQ_IN_RAW[mat] :
                        _is_thickness_enabled(mat, t) }
                |-> TK_PRICE_PER_SQ_IN_RAW[mat][t] ]
        kept == { mat \in DOMAIN TK_PRICE_PER_SQ_IN_RAW :
                    /\ DictGet(TK_MATERIAL_ENABLED, mat, FALSE)
                    /\ DOMAIN filtered_th(mat) # {} }
    IN  [ mat \in kept |-> filtered_th(mat) ]

TK_DENSITY_LB_PER_IN3 ==
    ("304" :> 289 @@ "316" :> 289 @@ "Carbon Steel" :> 283
        @@ "Monel" :> 319 @@ "Hastelloy" :> 322)

TK_LEAD_TIME_MULTIPLIER_MASTER == (7 :> 23 @@ 14 :> 16 @@ 21 :> 10)

\* LEAD_TIME_PRESETS["normal"]
TK_LEAD_TIME_ENABLED == (7 :> TRUE @@ 14 :> TRUE @@ 21 :> TRUE)

TK_LEAD_TIME_MULTIPLIER ==
    [ days \in { d \in DOMAIN TK_LEAD_TIME_MULTIPLIER_MASTER :
                    DictGet(TK_LEAD_TIME_ENABLED, d, FALSE) }
        |-> TK_LEAD_TIME_MULTIPLIER_MASTER[days] ]

\* the attributes of tuning_knobs once imported
tuning_knobs ==
    [ PRICE_PER_SQ_IN               |-> TK_PRICE_PER_SQ_IN,
      WEIGHT_MULTIPLIER_BY_MATERIAL |-> TK_WEIGHT_MULTIPLIER_BY_MATERIAL,
      MATERIAL_ENABLED              |-> TK_MATERIAL_ENABLED,
      THICKNESS_ENABLED_BY_MATERIAL |-> TK_THICKNESS_ENABLED_BY_MATERIAL,
      DENSITY_LB_PER_IN3            |-> TK_DENSITY_LB_PER_IN3,
      LASER_PER_LINEAR_IN           |-> 826,
      MILL_LABOR_PER_HR             |-> 150,
      MILL_SPEED_IPM                |-> 28,
      CHAMFER_SPEED_IPM             |-> 28,
      LOAD_TIME_MINS                |-> 6,
      INSPECTION_MINS_BY_TOL        |-> (5 :> 6 @@ 2 :> 12 @@ 1 :> 18),
      LEAD_TIME_ENABLED             |-> TK_LEAD_TIME_ENABLED,
      LEAD_TIME_MULTIPLIER          |-> TK_LEAD_TIME_MULTIPLIER,
      DEFAULT_LEAD_TIME_DAYS        |-> 21,
      QTY_DISCOUNT_TIERS            |->
        << [min_qty |-> 1,  multiplier |-> 100],
           [min_qty |-> 5,  multiplier |-> 97],
           [min_qty |-> 10, multiplier |-> 95],
           [min_qty |-> 25, multiplier |-> 92],
           [min_qty |-> 50, multiplier |-> 90] >> ]

(***************************************************************************)
(* pricing_engine.py                                                       *)
(***************************************************************************)
\* `import pricing_config as cfg` (pricing_engine.py line 7): the module whose
\* attributes calculate_quote and _qty_multiplier read
engine_cfg == pricing_config

\* sorted(tiers, key=lambda t: t["min_qty"]): a stable insertion sort
RECURSIVE InsertTier(_, _)
InsertTier(sorted, t) ==
    IF sorted = <<>> THEN <<t>>
    ELSE IF sorted[Len(sorted)]["min_qty"] <= t["min_qty"] THEN Append(sorted, t)
    ELSE Append(InsertTier(SubSeq(sorted, 1, Len(sorted) - 1), t), sorted[Len(sorted)])

RECURSIVE SortedTiers(_)
SortedTiers(tiers) ==
    IF tiers = <<>> THEN <<>>
    ELSE InsertTier(SortedTiers(SubSeq(tiers, 1, Len(tiers) - 1)), tiers[Len(tiers)])

\* Variant of WalkTiers whose comparison is turned round, taking a tier when
\* the quantity is at or below its min_qty (C19 depends on the comparison).
RECURSIVE WalkTiersReversedComparison(_, _, _, _)
WalkTiersReversedComparison(tiers, qty, i, multiplier) ==
    IF i > Len(tiers) THEN multiplier
    ELSE IF qty <= tiers[i]["min_qty"]
         THEN WalkTiersReversedComparison(tiers, qty, i + 1, tiers[i]["multiplier"])
         ELSE multiplier

\* the for loop of _qty_multiplier, from position i with the multiplier so far
RECURSIVE WalkTiers(_, _, _, _)
WalkTiers(tiers, qty, i, multiplier) ==
    IF i > Len(tiers) THEN multiplier
    ELSE IF qty >= tiers[i]["min_qty"]
         THEN WalkTiers(tiers, qty, i + 1, tiers[i]["multiplier"])
         ELSE multiplier

\* Variant of _qty_multiplier that walks the tiers in the order given, without
\* sorting them (C2 depends on the sort).
QtyMultiplierUnsorted(tier_list, qty) ==
    IF tier_list = <<>> THEN [raised |-> "IndexError", multiplier |-> 0]
    ELSE [raised |-> "",
          multiplier |-> WalkTiers(tier_list, qty, 1, tier_list[1]["multiplier"])]

\* _qty_multiplier(qty) reading QTY_DISCOUNT_TIERS = tier_list; tiers[0] of an
\* empty list raises IndexError
_qty_multiplier(tier_list, qty) ==
    LET tiers == SortedTiers(tier_list)
    IN  IF tiers = <<>> THEN [raised |-> "IndexError", multiplier |-> 0]
        ELSE [raised |-> "", multiplier |-> WalkTiers(tiers, qty, 1, tiers[1]["multiplier"])]


ground_base == DLiteral(1200, 100)

ground_per_lb == DLiteral(95, 100)

two_day_factor == DLiteral(185, 100)

next_day_factor == DLiteral(285, 100)

DHundred == DOfInt(100)

\* int(round(a * 100))
DRoundCents(a) == DRoundInt(DMul(a, DHundred))

\* the three rates of a billable weight in whole pounds
RatesOfBillableWeight(billable_weight) ==
    The({ [ ups_ground_cents  |-> DRoundCents(ground),
            ups_2day_cents    |-> DRoundCents(DMul(ground, two_day_factor)),
            ups_nextday_cents |-> DRoundCents(DMul(ground, next_day_factor)) ]
          : ground \in {DAdd(ground_base, DMul(ground_per_lb, DOfInt(billable_weight)))} })

\* Variant of _ups_rule_shipping_cents that bills the scale weight only (C24
\* depends on the dimensional weight).
ShippingCentsOfScaleWeight(weight_lb, length_in, width_in, height_in) ==
    RatesOfBillableWeight(DCeil(DMax(weight_lb, DOfInt(1))))

_ups_rule_shipping_cents(weight_lb, length_in, width_in, height_in) ==
    LET DIM_DIVISOR     == 139
        dim_weight      == DDivInt(DMul(DMul(length_in, width_in), height_in), DIM_DIVISOR)
        billable_weight == DCeil(DMax(DMax(weight_lb, dim_weight), DOfInt(1)))
    IN  RatesOfBillableWeight(billable_weight)

\* Variant of Validation that accepts quantity 0 (C1 depends on the quantity
\* check).
ValidationFromZero(c, x) ==
    IF ~(x.quantity >= 0) THEN "quantity must be >= 1"
    ELSE IF x.material \notin DOMAIN c.PRICE_PER_SQ_IN THEN "unknown material"
    ELSE IF x.thickness \notin DOMAIN c.PRICE_PER_SQ_IN[x.material]
         THEN "no price for thickness"
    ELSE IF x.bore_tolerance \notin DOMAIN c.INSPECTION_MINS_BY_TOL
         THEN "unsupported bore tolerance"
    ELSE IF x.ships_in_days \notin DOMAIN c.LEAD_TIME_MULTIPLIER
         THEN "unsupported ships_in_days"
    ELSE ""

\* Variant of Validation that checks ships_in_days before the other four
\* (C15 depends on the order of the checks).
ValidationLeadTimeFirst(c, x) ==
    IF x.ships_in_days \notin DOMAIN c.LEAD_TIME_MULTIPLIER
    THEN "unsupported ships_in_days"
    ELSE IF ~(x.quantity >= 1) THEN "quantity must be >= 1"
    ELSE IF x.material \notin DOMAIN c.PRICE_PER_SQ_IN THEN "unknown material"
    ELSE IF x.thickness \notin DOMAIN c.PRICE_PER_SQ_IN[x.material]
         THEN "no price for thickness"
    ELSE IF x.bore_tolerance \notin DOMAIN c.INSPECTION_MINS_BY_TOL
         THEN "unsupported bore tolerance"
    ELSE ""

\* The validation block of calculate_quote (lines 80-94): the message of the
\* first _require that fails, "" when all pass.
Validation(c, x) ==
    IF ~(x.quantity >= 1) THEN "quantity must be >= 1"
    ELSE IF x.material \notin DOMAIN c.PRICE_PER_SQ_IN THEN "unknown material"
    ELSE IF x.thickness \notin DOMAIN c.PRICE_PER_SQ_IN[x.material]
         THEN "no price for thickness"
    ELSE IF x.bore_tolerance \notin DOMAIN c.INSPECTION_MINS_BY_TOL
         THEN "unsupported bore tolerance"
    ELSE IF x.ships_in_days \notin DOMAIN c.LEAD_TIME_MULTIPLIER
         THEN "unsupported ships_in_days"
    ELSE ""

\* lines 96-104
Geometry(x) ==
    LET paddle_dia    == DDec(x.paddle_dia, 3)
        handle_length == DDec(x.handle_length_from_bore, 3)
        paddle_radius == DDivInt(paddle_dia, 2)
    IN  [ paddle_radius |-> paddle_radius,
          area_sq_in    |-> DMul(paddle_dia, DAdd(handle_length, paddle_radius)),
          linear_inches |->
              DAdd(DAdd(DDec(x.handle_width, 3), DMul(handle_length, DOfInt(2))),
                    DMul(paddle_radius, DDec(314, 2))) ]

\* Variant of Subtotal that leaves the chamfer cost out (C3 depends on all six
\* components being summed).
SubtotalWithoutChamfer(k) ==
    DAdd(DAdd(DAdd(DAdd(k.material_cost, k.laser_cost), k.machine_bore_cost),
                k.load_cost), k.inspection_cost)

\* Variant of Subtotal that adds the chamfer cost twice (C20 depends on the
\* chamfer cost entering the subtotal once).
SubtotalChamferTwice(k) ==
    DAdd(DAdd(DAdd(DAdd(DAdd(DAdd(k.material_cost, k.laser_cost),
                                  k.machine_bore_cost), k.chamfer_bore_cost),
                      k.chamfer_bore_cost), k.load_cost), k.inspection_cost)

\* lines 124-131
Subtotal(k) ==
    DAdd(DAdd(DAdd(DAdd(DAdd(k.material_cost, k.laser_cost),
                            k.machine_bore_cost), k.chamfer_bore_cost),
                k.load_cost), k.inspection_cost)

\* lines 106-122; the division by MILL_SPEED_IPM or CHAMFER_SPEED_IPM raises
\* ZeroDivisionError when the speed is 0
Costs(c, x, g) ==
    LET labor == c.MILL_LABOR_PER_HR
        bore  == DMul(DDec(314, 2), DDec(x.bore_dia, 3))
    IN  IF c.MILL_SPEED_IPM = 0 \/ (x.chamfer /\ c.CHAMFER_SPEED_IPM = 0)
        THEN [raised |-> "ZeroDivisionError"]
        ELSE [ raised            |-> "",
               material_cost     |->
                   DMul(g.area_sq_in, DDec(c.PRICE_PER_SQ_IN[x.material][x.thickness], 5)),
               laser_cost        |-> DMul(g.linear_inches, DDec(c.LASER_PER_LINEAR_IN, 3)),
               machine_bore_cost |->
                   DMul(DMul(bore, DLiteral(labor, c.MILL_SPEED_IPM)), DOfInt(2)),
               chamfer_bore_cost |->
                   IF x.chamfer
                   THEN DMul(DMul(bore, DLiteral(labor, c.CHAMFER_SPEED_IPM)), DOfInt(2))
                   ELSE DOfInt(0),
               load_cost         |-> DMul(DLiteral(labor, 60), DOfInt(c.LOAD_TIME_MINS)),
               inspection_cost   |->
                   DMul(DLiteral(labor, 60),
                         DOfInt(c.INSPECTION_MINS_BY_TOL[x.bore_tolerance])) ]

\* lines 133-137, qm the multiplier _qty_multiplier returned (in 1/100)
Pricing(c, x, subtotal, qm) ==
    LET multiplier            == DDec(c.LEAD_TIME_MULTIPLIER[x.ships_in_days], 1)
        unit_price            == DMul(subtotal, multiplier)
        qty_mult              == DDec(qm, 2)
        unit_price_discounted == DMul(unit_price, qty_mult)
    IN  [ multiplier            |-> multiplier,
          unit_price            |-> unit_price,
          qty_mult              |-> qty_mult,
          unit_price_discounted |-> unit_price_discounted,
          total_price           |-> DMul(unit_price_discounted, DOfInt(x.quantity)) ]

\* max(a, b) of two integers
\* Variant of IntMax that keeps the floor whatever the count (C22 depends on
\* the units beyond the first).
IntMaxFloorOnly(a, b) == b

IntMax(a, b) == IF a >= b THEN a ELSE b

\* lines 142-158, density the value of cfg.DENSITY_LB_PER_IN3[x.material] (in 1/1000)
Shipping(x, g, density) ==
    LET thickness      == DDec(x.thickness, 3)
        product_len_in == DAdd(DDec(x.handle_length_from_bore, 3), g.paddle_radius)
        product_w_in   == DDec(x.paddle_dia, 3)
        pkg_len_in     == DAdd(product_len_in, DOfInt(4))
        pkg_w_in       == DAdd(product_w_in, DOfInt(4))
        pkg_h_in       == DAdd(DOfInt(1), DMul(DOfInt(IntMax(x.quantity - 1, 0)), thickness))
        unit_weight_lb == DMul(DMul(g.area_sq_in, thickness), DDec(density, 3))
        total_weight_lb == DMul(unit_weight_lb, DOfInt(x.quantity))
    IN  [ pkg_len_in      |-> pkg_len_in,
          pkg_w_in        |-> pkg_w_in,
          pkg_h_in        |-> pkg_h_in,
          unit_weight_lb  |-> unit_weight_lb,
          total_weight_lb |-> total_weight_lb,
          shipping_rates  |->
              _ups_rule_shipping_cents(total_weight_lb, pkg_len_in, pkg_w_in, pkg_h_in) ]

\* lines 163-193: the returned dict; a rounded float is the integer count of
\* units of its last kept decimal place
QuoteDict(x, g, k, subtotal, p, s) ==
    [ area_sq_in                  |-> DRound(g.area_sq_in, 4),
      linear_inches               |-> DRound(g.linear_inches, 4),
      material_cost               |-> DRound(k.material_cost, 2),
      laser_cost                  |-> DRound(k.laser_cost, 2),
      machine_bore_cost           |-> DRound(k.machine_bore_cost, 2),
      chamfer_bore_cost           |-> DRound(k.chamfer_bore_cost, 2),
      load_cost                   |-> DRound(k.load_cost, 2),
      inspection_cost             |-> DRound(k.inspection_cost, 2),
      subtotal_pre_multiplier     |-> DRound(subtotal, 2),
      lead_time_multiplier        |-> p.multiplier,
      unit_price_pre_qty_discount |-> DRound(p.unit_price, 2),
      qty_discount_multiplier     |-> p.qty_mult,
      unit_price                  |-> DRound(p.unit_price_discounted, 2),
      quantity                    |-> x.quantity,
      total_price                 |-> DRound(p.total_price, 2),
      estimated_unit_weight_lb    |-> DRound(s.unit_weight_lb, 2),
      estimated_total_weight_lb   |-> DRound(s.total_weight_lb, 2),
      estimated_package_in        |->
          [ length |-> DRound(s.pkg_len_in, 2),
            width  |-> DRound(s.pkg_w_in, 2),
            height |-> DRound(s.pkg_h_in, 2) ],
      shipping                    |-> s.shipping_rates,
      handle_label                |-> x.handle_label,
      chamfer_width               |-> x.chamfer_width ]

\* How a call of calculate_quote ends: kind is "quote" or the exception's
\* class, msg the exception's message, and the locals assigned before the end.
NoRecord == [none |-> TRUE]

Outcome(kind, msg, k, subtotal, p, s, result) ==
    [ kind |-> kind, msg |-> msg, costs |-> k, subtotal |-> subtotal,
      pricing |-> p, shipping |-> s, result |-> result ]

\* calculate_quote(x) with c the module pricing_engine reads as cfg
calculate_quote(c, x) ==
    LET v == Validation(c, x)
    IN  IF v # "" THEN Outcome("ValueError", v, NoRecord, <<>>, NoRecord, NoRecord, NoRecord)
        ELSE
        The({ The({
            IF k.raised # ""
            THEN Outcome(k.raised, "division by zero", NoRecord, <<>>, NoRecord, NoRecord,
                         NoRecord)
            ELSE
            The({ The({
                IF qm.raised # ""
                THEN Outcome(qm.raised, "list index out of range", k, subtotal,
                             NoRecord, NoRecord, NoRecord)
                ELSE
                The({
                    IF "DENSITY_LB_PER_IN3" \notin DOMAIN c
                    THEN Outcome("AttributeError", "DENSITY_LB_PER_IN3", k, subtotal, p,
                                 NoRecord, NoRecord)
                    ELSE IF x.material \notin DOMAIN c.DENSITY_LB_PER_IN3
                    THEN Outcome("KeyError", x.material, k, subtotal, p, NoRecord, NoRecord)
                    ELSE
                    The({ Outcome("quote", "", k, subtotal, p, s,
                                  QuoteDict(x, g, k, subtotal, p, s))
                          : s \in {Shipping(x, g, c.DENSITY_LB_PER_IN3[x.material])} })
                    : p \in {Pricing(c, x, subtotal, qm.multiplier)} })
                : qm \in {_qty_multiplier(c.QTY_DISCOUNT_TIERS, x.quantity)} })
                : subtotal \in {Subtotal(k)} })
            : k \in {Costs(c, x, g)} })
            : g \in {Geometry(x)} })

(***************************************************************************)
(* api_app.py: the knobs configuration stored in the database (JSON) and   *)
(* its transient application to module tuning_knobs.                       *)
(***************************************************************************)
\* the empty dict {}
EmptyDict == <<>>

\* a JSON value float() and int() do not accept, such as "n/a"
NotANumber == -1

\* float(t_str) of a thickness key, in 1/1000 inch; NotANumber when float()
\* raises
ParseFloat(t_str) ==
    CASE t_str = "0.12"  -> 120
      [] t_str = "0.125" -> 125
      [] t_str = "0.25"  -> 250
      [] t_str = "0.250" -> 250
      [] t_str = "0.375" -> 375
      [] t_str = "0.5"   -> 500
      [] t_str = "0.50"  -> 500
      [] OTHER           -> NotANumber

\* str(float(t)) of a thickness in 1/1000 inch
FormatFloat(t) ==
    CASE t = 120 -> "0.12"
      [] t = 125 -> "0.125"
      [] t = 250 -> "0.25"
      [] t = 375 -> "0.375"
      [] t = 500 -> "0.5"

\* int(d_str) of a lead-time key; NotANumber when int() raises
ParseInt(d_str) ==
    CASE d_str = "7"  -> 7
      [] d_str = "07" -> 7
      [] d_str = "14" -> 14
      [] d_str = "21" -> 21
      [] d_str = "30" -> 30
      [] OTHER        -> NotANumber

\* str(int(k)) of a lead time
FormatInt(d) ==
    CASE d = 7 -> "7" [] d = 14 -> "14" [] d = 21 -> "21" [] d = 30 -> "30"

\* {float(t_str): v for t_str, v in d.items()} skipping the keys float()
\* rejects (lines 402-406). Two keys of one dict never convert to the same
\* value in the dicts modelled.
FloatKeys(d) ==
    [ t \in { ParseFloat(t_str) : t_str \in DOMAIN d } \ {NotANumber}
        |-> d[CHOOSE t_str \in DOMAIN d : ParseFloat(t_str) = t] ]

\* {int(d_str): v for d_str, v in d.items()} skipping the keys int() rejects
\* (lines 411-415)
IntKeys(d) ==
    [ n \in { ParseInt(d_str) : d_str \in DOMAIN d } \ {NotANumber}
        |-> d[CHOOSE d_str \in DOMAIN d : ParseInt(d_str) = n] ]

\* config_json.get(key) or {}
GetOrEmpty(config_json, key) ==
    IF key \in DOMAIN config_json THEN config_json[key] ELSE EmptyDict

\* _CFG_BASELINE: the snapshot of the overridable attributes taken at import
_CFG_BASELINE ==
    [ PRICE_PER_SQ_IN               |-> tuning_knobs.PRICE_PER_SQ_IN,
      MATERIAL_ENABLED              |-> tuning_knobs.MATERIAL_ENABLED,
      THICKNESS_ENABLED_BY_MATERIAL |-> tuning_knobs.THICKNESS_ENABLED_BY_MATERIAL,
      LEAD_TIME_MULTIPLIER          |-> tuning_knobs.LEAD_TIME_MULTIPLIER,
      LEAD_TIME_ENABLED             |-> tuning_knobs.LEAD_TIME_ENABLED,
      DEFAULT_LEAD_TIME_DAYS        |-> tuning_knobs.DEFAULT_LEAD_TIME_DAYS,
      WEIGHT_MULTIPLIER_BY_MATERIAL |-> tuning_knobs.WEIGHT_MULTIPLIER_BY_MATERIAL,
      DENSITY_LB_PER_IN3            |-> tuning_knobs.DENSITY_LB_PER_IN3 ]

\* the baseline price table with string thickness keys
_baseline_price_per_sq_in_as_db_shape ==
    LET base_ppsi == _CFG_BASELINE.PRICE_PER_SQ_IN
    IN  [ m \in DOMAIN base_ppsi |->
            [ t_str \in { FormatFloat(t) : t \in DOMAIN base_ppsi[m] }
                |-> base_ppsi[m][ParseFloat(t_str)] ] ]

\* the seed config stored in the database
_default_knobs_config ==
    LET mats0 == _CFG_BASELINE.MATERIAL_ENABLED
        mats  == [ m \in DOMAIN mats0 |->
                     IF m \in {"Monel", "Hastelloy"} THEN FALSE ELSE mats0[m] ]
        th    == _CFG_BASELINE.THICKNESS_ENABLED_BY_MATERIAL
        lt    == _CFG_BASELINE.LEAD_TIME_ENABLED
    IN  [ material_enabled              |-> mats,
          thickness_enabled_by_material |->
              [ m \in DOMAIN th |->
                  [ t_str \in { FormatFloat(t) : t \in DOMAIN th[m] }
                      |-> th[m][ParseFloat(t_str)] ] ],
          lead_time_enabled             |->
              [ d_str \in { FormatInt(d) : d \in DOMAIN lt } |-> lt[ParseInt(d_str)] ],
          default_lead_time_days        |-> _CFG_BASELINE.DEFAULT_LEAD_TIME_DAYS,
          price_per_sq_in               |-> _baseline_price_per_sq_in_as_db_shape,
          weight_multiplier_by_material |-> _CFG_BASELINE.WEIGHT_MULTIPLIER_BY_MATERIAL,
          density_lb_per_in3            |-> _CFG_BASELINE.DENSITY_LB_PER_IN3,
          updated_by                    |-> "system" ]

\* _restore_cfg_baseline(): every overridable attribute of cfg is reassigned
_restore_cfg_baseline(c) == _CFG_BASELINE

\* Variant of FilterPrices that keeps a material's entries whatever the
\* thickness flags say (C7 depends on the thickness filter).
FilterPricesIgnoringThickness(c, ppsi) ==
    LET kept(mat) ==
            { t_str \in DOMAIN ppsi[mat] :
                ParseFloat(t_str) # NotANumber /\ ppsi[mat][t_str] # NotANumber }
        mats == { mat \in DOMAIN ppsi :
                    DictGet(c.MATERIAL_ENABLED, mat, FALSE) /\ kept(mat) # {} }
    IN  [ mat \in mats |->
            [ t \in { ParseFloat(t_str) : t_str \in kept(mat) }
                |-> ppsi[mat][CHOOSE t_str \in kept(mat) : ParseFloat(t_str) = t] ] ]

\* lines 426-447 and 451-464: the entries of a string-keyed price table whose
\* material is enabled in c and whose thickness is enabled when c has a
\* thickness map for the material; a thickness or price that float() rejects
\* is skipped
FilterPrices(c, ppsi) ==
    LET kept(mat) ==
            { t_str \in DOMAIN ppsi[mat] :
                /\ ParseFloat(t_str) # NotANumber
                /\ ppsi[mat][t_str] # NotANumber
                /\ mat \in DOMAIN c.THICKNESS_ENABLED_BY_MATERIAL
                      => DictGet(c.THICKNESS_ENABLED_BY_MATERIAL[mat],
                                 ParseFloat(t_str), FALSE) }
        mats == { mat \in DOMAIN ppsi :
                    DictGet(c.MATERIAL_ENABLED, mat, FALSE) /\ kept(mat) # {} }
    IN  [ mat \in mats |->
            [ t \in { ParseFloat(t_str) : t_str \in kept(mat) }
                |-> ppsi[mat][CHOOSE t_str \in kept(mat) : ParseFloat(t_str) = t] ] ]

\* Variant of FinalPpsi whose fallback is the whole baseline table, not
\* filtered by the enabled flags (C9 depends on the fallback being filtered).
FinalPpsiUnfilteredFallback(c, ppsi) ==
    LET final_ppsi == FilterPrices(c, ppsi)
    IN  IF DOMAIN final_ppsi = {} THEN _CFG_BASELINE.PRICE_PER_SQ_IN ELSE final_ppsi

\* lines 449-464: the fallback to the baseline table when nothing is left
FinalPpsi(c, ppsi) ==
    LET final_ppsi == FilterPrices(c, ppsi)
    IN  IF DOMAIN final_ppsi = {}
        THEN FilterPrices(c, _baseline_price_per_sq_in_as_db_shape)
        ELSE final_ppsi

\* lines 468-470: the baseline lead-time multipliers of the keys of
\* cfg.LEAD_TIME_ENABLED
LeadTimeMultiplier(c) ==
    LET master_lt == _CFG_BASELINE.LEAD_TIME_MULTIPLIER
    IN  [ d \in DOMAIN c.LEAD_TIME_ENABLED \cap DOMAIN master_lt |-> master_lt[d] ]

\* the number of assignments _apply_cfg_from_db_config makes in turn
ApplySteps == 7

\* The i-th assignment of _apply_cfg_from_db_config(config_json) on the
\* attributes c: the attributes after it, and the exception it raised if any.
ApplyStep(i, c, config_json) ==
    LET ok(c2) == [cfg |-> c2, raised |-> ""]
        dens   == GetOrEmpty(config_json, "density_lb_per_in3")
        wmult  == GetOrEmpty(config_json, "weight_multiplier_by_material")
        ppsi0  == GetOrEmpty(config_json, "price_per_sq_in")
        ppsi   == IF DOMAIN ppsi0 = {} THEN _baseline_price_per_sq_in_as_db_shape ELSE ppsi0
    IN  CASE i = 1 ->  \* line 395
              ok([c EXCEPT !.MATERIAL_ENABLED = GetOrEmpty(config_json, "material_enabled")])
          [] i = 2 ->  \* lines 398-407
              LET th == GetOrEmpty(config_json, "thickness_enabled_by_material")
              IN  ok([c EXCEPT !.THICKNESS_ENABLED_BY_MATERIAL =
                        [ m \in DOMAIN th |-> FloatKeys(th[m]) ]])
          [] i = 3 ->  \* lines 410-418
              LET lte == IntKeys(GetOrEmpty(config_json, "lead_time_enabled"))
                  c2  == [c EXCEPT !.LEAD_TIME_ENABLED = lte]
              IN  ok(IF "default_lead_time_days" \in DOMAIN config_json
                     THEN [c2 EXCEPT !.DEFAULT_LEAD_TIME_DAYS =
                                              config_json["default_lead_time_days"]]
                     ELSE c2)
          [] i = 4 ->  \* lines 421-422
              IF \E k \in DOMAIN dens : dens[k] = NotANumber
              THEN [cfg |-> c, raised |-> "ValueError"]
              ELSE ok(IF DOMAIN dens # {} THEN [c EXCEPT !.DENSITY_LB_PER_IN3 = dens] ELSE c)
          [] i = 5 ->  \* lines 423-424
              IF \E k \in DOMAIN wmult : wmult[k] = NotANumber
              THEN [cfg |-> c, raised |-> "ValueError"]
              ELSE ok(IF DOMAIN wmult # {}
                      THEN [c EXCEPT !.WEIGHT_MULTIPLIER_BY_MATERIAL = wmult] ELSE c)
          [] i = 6 ->  \* lines 426-466
              ok([c EXCEPT !.PRICE_PER_SQ_IN = FinalPpsi(c, ppsi)])
          [] i = 7 ->  \* lines 468-470
              ok([c EXCEPT !.LEAD_TIME_MULTIPLIER = LeadTimeMultiplier(c)])

RECURSIVE ApplyFrom(_, _, _)
ApplyFrom(i, c, config_json) ==
    IF i > ApplySteps THEN [cfg |-> c, raised |-> ""]
    ELSE LET r == ApplyStep(i, c, config_json)
         IN  IF r.raised # "" THEN r ELSE ApplyFrom(i + 1, r.cfg, config_json)

\* _apply_cfg_from_db_config(config_json) on the attributes c
_apply_cfg_from_db_config(c, config_json) == ApplyFrom(1, c, config_json)

(***************************************************************************)
(* The inputs the model draws: knobs configurations and quote requests.    *)
(***************************************************************************)
\* values of each key of a knobs configuration; EmptyDict leaves the key out
MaterialEnabledChoices ==
    { EmptyDict,
      [material_enabled |-> _default_knobs_config.material_enabled],
      [material_enabled |-> [m \in DOMAIN TK_MATERIAL_ENABLED |-> FALSE]],
      [material_enabled |-> ("304" :> FALSE @@ "316" :> TRUE)],
      [material_enabled |-> ("304" :> TRUE @@ "Monel" :> TRUE)] }

ThicknessEnabledChoices ==
    { EmptyDict,
      [thickness_enabled_by_material |-> _default_knobs_config.thickness_enabled_by_material],
      [thickness_enabled_by_material |->
          ("304" :> ("0.25" :> FALSE @@ "0.375" :> TRUE) @@ "Monel" :> ("0.125" :> TRUE))],
      [thickness_enabled_by_material |->
          ("304" :> ("0.250" :> TRUE @@ "thick" :> TRUE) @@ "316" :> ("0.5" :> FALSE))] }

LeadTimeEnabledChoices ==
    { EmptyDict,
      [lead_time_enabled |-> ("7" :> FALSE @@ "14" :> TRUE @@ "21" :> TRUE)],
      [lead_time_enabled |-> ("07" :> TRUE @@ "30" :> TRUE @@ "soon" :> TRUE)] }

DefaultLeadTimeChoices ==
    { EmptyDict, [default_lead_time_days |-> 14] }

PriceChoices ==
    { EmptyDict,
      [price_per_sq_in |->
          ("304" :> ("0.25" :> 30000 @@ "0.5" :> 70000) @@ "Monel" :> ("0.125" :> 278000))],
      [price_per_sq_in |-> ("Titanium" :> ("0.25" :> 99000))],
      [price_per_sq_in |->
          ("304" :> ("0.250" :> NotANumber @@ "thin" :> 10000) @@ "316" :> ("0.50" :> 80000))] }

WeightMultiplierChoices ==
    { EmptyDict,
      [weight_multiplier_by_material |-> ("304" :> 110)],
      [weight_multiplier_by_material |-> ("304" :> NotANumber)] }

DensityChoices ==
    { EmptyDict,
      [density_lb_per_in3 |-> ("304" :> 290 @@ "Monel" :> 319)],
      [density_lb_per_in3 |-> ("304" :> NotANumber)] }

\* the knobs configurations _apply_cfg_from_db_config is applied to
Overrides ==
    { me @@ te @@ lt @@ dl @@ pp @@ wm @@ de :
        me \in MaterialEnabledChoices, te \in ThicknessEnabledChoices,
        lt \in LeadTimeEnabledChoices, dl \in DefaultLeadTimeChoices,
        pp \in PriceChoices, wm \in WeightMultiplierChoices, de \in DensityChoices }

\* chamfer_width = None
None == -1

\* the geometry every modelled request asks for, in 1/1000 inch
QuoteInputs(quantity, material, thickness, bore_tolerance, chamfer, ships_in_days) ==
    [ quantity |-> quantity, material |-> material, thickness |-> thickness,
      handle_width |-> 2000, handle_length_from_bore |-> 18000,
      paddle_dia |-> 6000, bore_dia |-> 2000,
      bore_tolerance |-> bore_tolerance, chamfer |-> chamfer,
      ships_in_days |-> ships_in_days,
      handle_label |-> "No label",
      chamfer_width |-> IF chamfer THEN 62 ELSE None ]

\* the largest quantity a modelled request asks for
MaxQty == 5

\* QuoteInputs with other lengths (1/1000 inch) than the model's usual part
WithGeometry(x, handle_length_from_bore, paddle_dia, bore_dia) ==
    [x EXCEPT !.handle_length_from_bore = handle_length_from_bore,
              !.paddle_dia = paddle_dia, !.bore_dia = bore_dia]

\* requests whose bore reaches or exceeds the paddle, whose handle does not
\* clear the paddle radius, or whose paddle is at or over 48 in, next to
\* requests that keep all three relations
GeometryInputs ==
    { WithGeometry(QuoteInputs(1, "304", 250, 5, ch, 21), hl, pd, bd) :
        ch \in BOOLEAN, hl \in {1000, 3000, 18000, 30000},
        pd \in {6000, 48000, 49000}, bd \in {2000, 6000, 7000} }

CalcInputs ==
    { QuoteInputs(q, m, t, tol, ch, d) :
        q \in 0..MaxQty, m \in {"304", "Monel", "Titanium"},
        t \in {125, 250, 375, 500}, tol \in {5, 1, 3}, ch \in BOOLEAN,
        d \in {7, 21, 10} }
    \cup GeometryInputs

\* the module whose attributes the engine reads, by name
Module(name) == IF name = "tuning_knobs" THEN tuning_knobs ELSE engine_cfg

\* tier lists handed to _qty_multiplier
MaxTiers == 3

Tiers == [min_qty : {1, 3, 5}, multiplier : {100, 95, 90}]

TierLists == UNION { [1..n -> Tiers] : n \in 0..MaxTiers }

(***************************************************************************)
(* Spec: concurrent /quote and /checkout/create requests and /admin/config *)
(* writes in one api_app process.                                          *)
(***************************************************************************)
(***************************************************************************)
(* The orders table and the executions of stripe_webhook.  A row of        *)
(* orders is its stripe_session_id (unique) with its order_number (unique, *)
(* None while NULL).  Sessions are the checkout sessions whose deliveries  *)
(* may be repeated; OtherSessions are delivered once each.                 *)
(***************************************************************************)
NHook == 2

Hooks == 1..NHook

NSession == 2

Sessions == 1..NSession

\* the checkout sessions that are delivered once
MaxOthers == 6

OtherSessions == (NSession + 1)..(NSession + MaxOthers)

HookIdle == [ pc |-> "idle", session |-> 0, order_number |-> None, next_num |-> 0,
              attempt |-> 0, error |-> "", status |-> 0 ]

\* no checkout session, no order, no webhook execution
NoOrders ==
    /\ stripe_sessions = {}
    /\ orders = <<>>
    /\ hook = [w \in Hooks |-> HookIdle]

NReq == 2

Requests == 1..NReq

\* no AppConfig row with id "active"
NoRow == [no_row |-> TRUE]

\* the requests and stored configurations of Spec
MainInputs ==
    { QuoteInputs(1, "304", 250, 5, TRUE, 21),
      QuoteInputs(5, "Monel", 125, 1, FALSE, 7),
      QuoteInputs(1, "Titanium", 250, 5, FALSE, 21) }

MainOverrides ==
    { [material_enabled |-> [m \in DOMAIN TK_MATERIAL_ENABLED |-> FALSE]],
      [material_enabled |-> ("304" :> FALSE @@ "316" :> TRUE),
       lead_time_enabled |-> ("7" :> FALSE @@ "14" :> TRUE @@ "21" :> TRUE),
       default_lead_time_days |-> "14"],
      [material_enabled |-> ("304" :> TRUE @@ "Monel" :> TRUE),
       density_lb_per_in3 |-> ("304" :> NotANumber)],
      [default_lead_time_days |-> "soon"] }

\* The handlers of the configuration routes, each serving one request at a
\* time.  They share only the app_config table with the quote handlers: they
\* may run in the threadpool or in another worker process of the service.
NAdmin == 1

Admins == 1..NAdmin

AdminIdle == [ pc |-> "idle", route |-> "", config_json |-> NoRecord, found |-> FALSE,
               status |-> 0 ]

\* a request thread: the route it serves, the QuoteInputs of the call of
\* _calculate_quote_with_db_knobs it is in, the cart items still to be
\* quoted, and the Stripe session of a checkout
Idle == [ pc |-> "idle", route |-> "", inputs |-> NoRecord, rest |-> <<>>,
          active |-> NoRecord, step |-> 0, outcome |-> NoRecord, session |-> 0,
          status |-> 0 ]

NoCall == [no_call |-> TRUE]

Init ==
    /\ args = NoCall
    /\ ret = NoCall
    /\ cfg = _CFG_BASELINE
    /\ db_config = NoRow
    /\ lock = 0
    /\ req = [r \in Requests |-> Idle]
    /\ admin = [a \in Admins |-> AdminIdle]
    /\ NoOrders

\* Thread 1 is the event loop, which runs the async handler of POST /quote
\* from start to end; the other threads belong to the threadpool and run the
\* sync handlers of POST /checkout/create and POST /checkout/cart/create.
IsEventLoop(r) == r = 1

\* HTTPException(400, "Cart is empty") of line 749, and the 422 of a body
\* that fails validation (line 569, or the request model of a checkout)
CartIsEmpty ==
    Outcome("HTTPException", "Cart is empty", NoRecord, <<>>, NoRecord, NoRecord, NoRecord)

ValidationError ==
    Outcome("ValidationError", "chamfer_width", NoRecord, <<>>, NoRecord, NoRecord,
            NoRecord)

\* the chamfer_width of a body that is the JSON string ""
EmptyString == -3

\* The handler of a route starts on a body holding items (one QuoteInputs
\* for /quote, line 568, and /checkout/create, line 664; one per cart item
\* for /checkout/cart/create, lines 759-760): a body that fails validation
\* is answered before anything is read, an empty cart is refused (line
\* 749), otherwise the first item goes to _calculate_quote_with_db_knobs.
Serve(r, route, items) ==
    /\ req[r].pc = "idle"
    /\ req' = [req EXCEPT ![r] =
          IF \E i \in DOMAIN items : items[i].chamfer_width = EmptyString
          THEN [Idle EXCEPT !.pc = "respond", !.route = route,
                            !.outcome = ValidationError]
          ELSE IF items = <<>>
          THEN [Idle EXCEPT !.pc = "respond", !.route = route, !.outcome = CartIsEmpty]
          ELSE [Idle EXCEPT !.pc = "fetch", !.route = route, !.inputs = Head(items),
                            !.rest = Tail(items)]]
    /\ UNCHANGED <<args, ret, cfg, db_config, lock>>
    /\ UNCHANGED <<admin, orderVars>>

\* POST /quote on the event loop, POST /checkout/create on a threadpool
\* thread, with a body that holds the QuoteInputs x
Submit(r, x) ==
    Serve(r, IF IsEventLoop(r) THEN "quote" ELSE "checkout_create", <<x>>)

\* the exception of a commit that inserts a second row with id "active"
IntegrityError ==
    Outcome("IntegrityError", "app_config.id", NoRecord, <<>>, NoRecord, NoRecord, NoRecord)

\* _calculate_quote_with_db_knobs lines 477-480 and _get_or_seed_active_config
\* lines 353-354: the SELECT; the row found is the value returned (line 359)
Fetch(r) ==
    /\ req[r].pc = "fetch"
    /\ IF db_config = NoRow
       THEN req' = [req EXCEPT ![r].pc = "seed"]
       ELSE req' = [req EXCEPT ![r].pc = "acquire", ![r].active = db_config]
    /\ UNCHANGED <<args, ret, cfg, db_config, lock>>
    /\ UNCHANGED <<admin, orderVars>>

\* _get_or_seed_active_config lines 355-357: the INSERT of the seed row is
\* committed; when another session has inserted the row since the SELECT the
\* commit raises IntegrityError, which leaves _calculate_quote_with_db_knobs
\* before the lock is taken
Seed(r) ==
    /\ req[r].pc = "seed"
    /\ IF db_config = NoRow
       THEN /\ db_config' = _default_knobs_config
            /\ req' = [req EXCEPT ![r].pc = "refresh"]
       ELSE /\ db_config' = db_config
            /\ req' = [req EXCEPT ![r].pc = "respond", ![r].outcome = IntegrityError]
    /\ UNCHANGED <<args, ret, cfg, lock>>
    /\ UNCHANGED <<admin, orderVars>>

\* _get_or_seed_active_config lines 358-359: db.refresh(row) reads the row as
\* it is now
Refresh(r) ==
    /\ req[r].pc = "refresh"
    /\ req' = [req EXCEPT ![r].pc = "acquire", ![r].active = db_config]
    /\ UNCHANGED <<args, ret, cfg, db_config, lock>>
    /\ UNCHANGED <<admin, orderVars>>

\* line 484: with _CFG_LOCK
Acquire(r) ==
    /\ req[r].pc = "acquire"
    /\ lock = 0
    /\ lock' = r
    /\ req' = [req EXCEPT ![r].pc = "restore"]
    /\ UNCHANGED <<args, ret, cfg, db_config>>
    /\ UNCHANGED <<admin, orderVars>>

\* line 485
RestoreBefore(r) ==
    /\ req[r].pc = "restore"
    /\ cfg' = _restore_cfg_baseline(cfg)
    /\ req' = [req EXCEPT ![r].pc = "apply", ![r].step = 1]
    /\ UNCHANGED <<args, ret, db_config, lock>>
    /\ UNCHANGED <<admin, orderVars>>

\* the exception leaving _calculate_quote_with_db_knobs from line 486
ApplyFailure(raised) ==
    Outcome(raised, "could not convert string to float", NoRecord, <<>>,
            NoRecord, NoRecord, NoRecord)

\* Variant of Apply in which an exception of line 486 leaves the lock held
\* (C30 depends on the with statement releasing it).
ApplyKeepingLock(r) ==
    /\ req[r].pc = "apply"
    /\ LET a == ApplyStep(req[r].step, cfg, req[r].active)
       IN  /\ cfg' = a.cfg
           /\ lock' = lock
           /\ IF a.raised # ""
              THEN req' = [req EXCEPT ![r].pc = "respond",
                                      ![r].outcome = ApplyFailure(a.raised)]
              ELSE req' = [req EXCEPT
                             ![r].pc = IF req[r].step = ApplySteps THEN "calc" ELSE "apply",
                             ![r].step = req[r].step + 1]
    /\ UNCHANGED <<args, ret, db_config>>
    /\ UNCHANGED <<admin, orderVars>>

\* line 486: one assignment of _apply_cfg_from_db_config(active); an exception
\* leaves the with block, which releases the lock
Apply(r) ==
    /\ req[r].pc = "apply"
    /\ LET a == ApplyStep(req[r].step, cfg, req[r].active)
       IN  /\ cfg' = a.cfg
           /\ IF a.raised # ""
              THEN /\ lock' = 0
                   /\ req' = [req EXCEPT ![r].pc = "respond",
                                         ![r].outcome = ApplyFailure(a.raised)]
              ELSE /\ lock' = lock
                   /\ req' = [req EXCEPT
                                ![r].pc = IF req[r].step = ApplySteps THEN "calc" ELSE "apply",
                                ![r].step = req[r].step + 1]
    /\ UNCHANGED <<args, ret, db_config>>
    /\ UNCHANGED <<admin, orderVars>>

\* calculate_quote(inputs) for every request body served: the call reads the
\* module pricing_engine imported, which no handler assigns to
QuoteOf == [x \in MainInputs |-> calculate_quote(engine_cfg, x)]

\* The module calculate_quote reads at line 488.  As shipped it is the
\* module pricing_engine imported.  A specification that draws the binding
\* of pricing_engine.cfg (args.module) reads pricing_config, or the module
\* tuning_knobs with the attributes the handlers have assigned (cfg).
EngineModule ==
    IF "module" \in DOMAIN args
    THEN IF args.module = "tuning_knobs" THEN cfg @@ tuning_knobs ELSE pricing_config
    ELSE engine_cfg

\* the body of the checkouts of SpecRedelivery
CheckoutInputs == { QuoteInputs(1, "304", 250, 5, TRUE, 21) }

\* module tuning_knobs as lines 485-486 leave it for the seed configuration,
\* and calculate_quote(inputs) reading it
SeedModule ==
    _apply_cfg_from_db_config(_CFG_BASELINE, _default_knobs_config).cfg @@ tuning_knobs

SeedQuoteOf == [x \in CheckoutInputs |-> calculate_quote(SeedModule, x)]

\* calculate_quote(inputs) on the module the engine reads now (computed once
\* for the modules and bodies that recur)
EngineQuote(x) ==
    IF EngineModule = engine_cfg /\ x \in MainInputs THEN QuoteOf[x]
    ELSE IF EngineModule = SeedModule /\ x \in CheckoutInputs THEN SeedQuoteOf[x]
    ELSE calculate_quote(EngineModule, x)

\* line 488: calculate_quote(inputs)
Calc(r) ==
    /\ req[r].pc = "calc"
    /\ req' = [req EXCEPT ![r].pc = "finally", ![r].outcome = EngineQuote(req[r].inputs)]
    /\ UNCHANGED <<args, ret, cfg, db_config, lock>>
    /\ UNCHANGED <<admin, orderVars>>

\* lines 489-490
RestoreAfter(r) ==
    /\ req[r].pc = "finally"
    /\ cfg' = _restore_cfg_baseline(cfg)
    /\ req' = [req EXCEPT ![r].pc = "release"]
    /\ UNCHANGED <<args, ret, db_config, lock>>
    /\ UNCHANGED <<admin, orderVars>>

\* Where the handler goes on when _calculate_quote_with_db_knobs is left:
\* /quote returns the quote or maps the exception (lines 569-575); a
\* checkout passes an exception on, quotes the next cart item (lines
\* 759-761) or goes on to create the Stripe session (lines 674, 773).
AfterQuote(q) ==
    IF q.route = "quote" \/ q.outcome.kind # "quote"
    THEN [q EXCEPT !.pc = "respond"]
    ELSE IF q.rest # <<>>
    THEN [q EXCEPT !.pc = "fetch", !.inputs = Head(q.rest), !.rest = Tail(q.rest),
                   !.active = NoRecord, !.step = 0]
    ELSE [q EXCEPT !.pc = "stripe"]

\* the end of the with block, and the return or the exception of
\* _calculate_quote_with_db_knobs
Release(r) ==
    /\ req[r].pc = "release"
    /\ lock' = 0
    /\ req' = [req EXCEPT ![r] = AfterQuote(req[r])]
    /\ UNCHANGED <<args, ret, cfg, db_config>>
    /\ UNCHANGED <<admin, orderVars>>

\* checkout_create and checkout_cart_create handle no exception of their
\* calls: an HTTPException is answered with its status, a body refused by
\* the request model 422, any other exception 500
CheckoutStatus(kind) ==
    IF kind = "quote" THEN 200
    ELSE IF kind = "HTTPException" THEN 400
    ELSE IF kind = "ValidationError" THEN 422
    ELSE 500

\* the response of /quote (lines 561-575)
HttpStatus(kind) ==
    IF kind = "quote" THEN 200
    ELSE IF kind = "ValidationError" THEN 422
    ELSE IF kind = "ValueError" THEN 400
    ELSE 500

Respond(r) ==
    /\ req[r].pc = "respond"
    /\ req' = [req EXCEPT ![r].pc = "done",
                          ![r].status = IF req[r].route = "quote"
                                        THEN HttpStatus(req[r].outcome.kind)
                                        ELSE CheckoutStatus(req[r].outcome.kind)]
    /\ UNCHANGED <<args, ret, cfg, db_config, lock>>
    /\ UNCHANGED <<admin, orderVars>>

\* the thread serves its next request
Finish(r) ==
    /\ req[r].pc = "done"
    /\ req' = [req EXCEPT ![r] = Idle]
    /\ UNCHANGED <<args, ret, cfg, db_config, lock>>
    /\ UNCHANGED <<admin, orderVars>>

\* the exception of a commit that inserts a second row of a stripe_session_id
OrderExists ==
    Outcome("IntegrityError", "orders.stripe_session_id", NoRecord, <<>>, NoRecord,
            NoRecord, NoRecord)

\* checkout_create line 674, checkout_cart_create line 773:
\* stripe.checkout.Session.create; Stripe hands out its session ids in order
StripeCreate(r) ==
    /\ req[r].pc = "stripe"
    /\ \E s \in Sessions :
          /\ s \notin stripe_sessions
          /\ \A j \in Sessions : j < s => j \in stripe_sessions
          /\ stripe_sessions' = stripe_sessions \cup {s}
          /\ req' = [req EXCEPT ![r].pc = "select", ![r].session = s]
    /\ UNCHANGED <<orders, hook>>
    /\ UNCHANGED <<args, ret, cfg, db_config, lock, admin>>

\* line 725 (line 825): the SELECT of the order of the session
SelectOrder(r) ==
    /\ req[r].pc = "select"
    /\ req' = [req EXCEPT ![r].pc = IF req[r].session \in DOMAIN orders
                                    THEN "respond" ELSE "insert"]
    /\ UNCHANGED <<args, ret, cfg, db_config, lock>>
    /\ UNCHANGED <<admin, orderVars>>

\* lines 726-734 (lines 826-834): the INSERT of the pending order is
\* committed; when the webhook has inserted the order of the session since
\* the SELECT the commit raises IntegrityError, which nothing handles
InsertOrder(r) ==
    /\ req[r].pc = "insert"
    /\ IF req[r].session \in DOMAIN orders
       THEN /\ orders' = orders
            /\ req' = [req EXCEPT ![r].pc = "respond", ![r].outcome = OrderExists]
       ELSE /\ orders' = orders @@ (req[r].session :> None)
            /\ req' = [req EXCEPT ![r].pc = "respond"]
    /\ UNCHANGED <<stripe_sessions, hook>>
    /\ UNCHANGED <<args, ret, cfg, db_config, lock, admin>>

\* POST /checkout/create with a body whose inputs are x
checkout_create(r, x) ==
    /\ ~IsEventLoop(r)
    /\ Serve(r, "checkout_create", <<x>>)

\* POST /checkout/cart/create with a body whose items are items
checkout_cart_create(r, items) ==
    /\ ~IsEventLoop(r)
    /\ Serve(r, "checkout_cart_create", items)

\* admin_put_config lines 596-611: the value stored for a request body, or
\* Rejected when int() refuses its default_lead_time_days (400).  The bodies
\* drawn are JSON objects whose tables are objects (lines 597-603 pass).
Rejected == [rejected |-> TRUE]

updated_at == [updated_at |-> "now"]

PutPayload(payload) ==
    IF "default_lead_time_days" \notin DOMAIN payload THEN updated_at @@ payload
    ELSE IF ParseInt(payload.default_lead_time_days) = NotANumber THEN Rejected
    ELSE updated_at @@ [payload EXCEPT !.default_lead_time_days = ParseInt(@)]

\* the body of the response of a configuration route for the row read: GET
\* /config/active answers four of its keys (lines 535-540), the other routes
\* the whole config_json
ConfigResponse(route, config_json) ==
    IF route = "/config/active"
    THEN [ material_enabled |-> GetOrEmpty(config_json, "material_enabled"),
           thickness_enabled_by_material
               |-> GetOrEmpty(config_json, "thickness_enabled_by_material"),
           lead_time_enabled |-> GetOrEmpty(config_json, "lead_time_enabled"),
           default_lead_time_days
               |-> IF "default_lead_time_days" \in DOMAIN config_json
                      /\ config_json["default_lead_time_days"] # 0
                   THEN config_json["default_lead_time_days"] ELSE 21 ]
    ELSE config_json

\* lines 353-354 in the handler of a GET route: the SELECT; the row found is
\* answered, a missing one is seeded
ConfigRead(a, route) ==
    /\ admin[a].pc = "idle"
    /\ IF db_config = NoRow
       THEN admin' = [admin EXCEPT ![a] = [AdminIdle EXCEPT !.pc = "commit", !.route = route,
                                             !.config_json = _default_knobs_config]]
       ELSE admin' = [admin EXCEPT ![a] = [AdminIdle EXCEPT !.pc = "done", !.route = route,
                                             !.status = 200,
                                             !.config_json = ConfigResponse(route, db_config)]]
    /\ UNCHANGED <<args, ret, cfg, db_config, lock, req>>
    /\ UNCHANGED orderVars

\* GET /config/active (lines 529-542)
get_active_config_public(a) == ConfigRead(a, "/config/active")

\* GET /admin/config (lines 582-590)
admin_get_config(a) == ConfigRead(a, "/admin/config")

\* PUT /admin/config, lines 593-620: the body is checked and converted, then
\* the row is SELECTed
admin_put_config(a, payload) ==
    /\ admin[a].pc = "idle"
    /\ IF PutPayload(payload) = Rejected
       THEN admin' = [admin EXCEPT ![a] = [AdminIdle EXCEPT !.pc = "done",
                                             !.route = "/admin/config", !.status = 400]]
       ELSE admin' = [admin EXCEPT ![a] = [AdminIdle EXCEPT !.pc = "commit",
                                             !.route = "/admin/config",
                                             !.config_json = PutPayload(payload),
                                             !.found = (db_config # NoRow)]]
    /\ UNCHANGED <<args, ret, cfg, db_config, lock, req>>
    /\ UNCHANGED orderVars

\* POST /admin/config/reset, lines 629-644
admin_reset_config(a) ==
    /\ admin[a].pc = "idle"
    /\ admin' = [admin EXCEPT ![a] = [AdminIdle EXCEPT !.pc = "commit",
                                          !.route = "/admin/config/reset",
                                          !.config_json = _default_knobs_config,
                                          !.found = (db_config # NoRow)]]
    /\ UNCHANGED <<args, ret, cfg, db_config, lock, req>>
    /\ UNCHANGED orderVars

\* db.commit() of a handler (lines 357, 622, 646): the UPDATE of the row found,
\* or the INSERT of a new one, which raises IntegrityError when another
\* session has inserted the row since the SELECT (answered 500)
ConfigCommit(a) ==
    /\ admin[a].pc = "commit"
    /\ IF ~admin[a].found /\ db_config # NoRow
       THEN /\ db_config' = db_config
            /\ admin' = [admin EXCEPT ![a] = [AdminIdle EXCEPT !.pc = "done",
                                                  !.route = admin[a].route, !.status = 500]]
       ELSE /\ db_config' = admin[a].config_json
            /\ admin' = [admin EXCEPT ![a] = [AdminIdle EXCEPT !.pc = "refresh",
                                                  !.route = admin[a].route]]
    /\ UNCHANGED <<args, ret, cfg, lock, req>>
    /\ UNCHANGED orderVars

\* db.refresh(row) and the response (lines 358-359, 623-624, 647-648)
ConfigRefresh(a) ==
    /\ admin[a].pc = "refresh"
    /\ admin' = [admin EXCEPT ![a] =
                    [AdminIdle EXCEPT !.pc = "done", !.route = admin[a].route, !.status = 200,
                                      !.config_json = ConfigResponse(admin[a].route, db_config)]]
    /\ UNCHANGED <<args, ret, cfg, db_config, lock, req>>
    /\ UNCHANGED orderVars

\* the handler serves its next request
ConfigReturn(a) ==
    /\ admin[a].pc = "done"
    /\ admin' = [admin EXCEPT ![a] = AdminIdle]
    /\ UNCHANGED <<args, ret, cfg, db_config, lock, req>>
    /\ UNCHANGED orderVars

Next ==
    \/ \E r \in Requests, x \in MainInputs : Submit(r, x)
    \/ \E r \in Requests : Fetch(r)
    \/ \E r \in Requests : Seed(r)
    \/ \E r \in Requests : Refresh(r)
    \/ \E r \in Requests : Acquire(r)
    \/ \E r \in Requests : RestoreBefore(r)
    \/ \E r \in Requests : Apply(r)
    \/ \E r \in Requests : Calc(r)
    \/ \E r \in Requests : RestoreAfter(r)
    \/ \E r \in Requests : Release(r)
    \/ \E r \in Requests : Respond(r)
    \/ \E r \in Requests : Finish(r)
    \/ \E a \in Admins : get_active_config_public(a)
    \/ \E a \in Admins : admin_get_config(a)
    \/ \E a \in Admins, payload \in MainOverrides : admin_put_config(a, payload)
    \/ \E a \in Admins : admin_reset_config(a)
    \/ \E a \in Admins : ConfigCommit(a)
    \/ \E a \in Admins : ConfigRefresh(a)
    \/ \E a \in Admins : ConfigReturn(a)

Spec == Init /\ [][Next]_vars

\* As shipped calculate_quote returns no quote (C6), so that no checkout gets
\* as far as the Stripe call of line 674: Spec and FairSpec leave the steps
\* after it out of their next-state relation.
NoCheckoutPastQuote ==
    \A r \in Requests : req[r].pc \notin {"stripe", "select", "insert"}

(***************************************************************************)
(* SpecQty, SpecCalc, SpecApply: one call of a function on drawn arguments *)
(***************************************************************************)
MainIdle ==
    /\ cfg = _CFG_BASELINE
    /\ db_config = NoRow
    /\ lock = 0
    /\ req = [r \in Requests |-> Idle]
    /\ admin = [a \in Admins |-> AdminIdle]
    /\ NoOrders

InitQty ==
    /\ args \in [tier_list : TierLists, qty : 0..MaxQty]
    /\ ret = NoCall
    /\ MainIdle

CallQty ==
    /\ ret = NoCall
    /\ ret' = _qty_multiplier(args.tier_list, args.qty)
    /\ UNCHANGED <<args, cfg, db_config, lock, req>>
    /\ UNCHANGED <<admin, orderVars>>

SpecQty == InitQty /\ [][CallQty]_vars

InitCalc ==
    /\ args \in [module : {"pricing_config", "tuning_knobs"}, x : CalcInputs]
    /\ ret = NoCall
    /\ MainIdle

CallCalc ==
    /\ ret = NoCall
    /\ ret' = calculate_quote(Module(args.module), args.x)
    /\ UNCHANGED <<args, cfg, db_config, lock, req>>
    /\ UNCHANGED <<admin, orderVars>>

SpecCalc == InitCalc /\ [][CallCalc]_vars

InitApply ==
    /\ args \in [config_json : Overrides]
    /\ ret = NoCall
    /\ MainIdle

\* lines 485-486: _restore_cfg_baseline(); _apply_cfg_from_db_config(active)
CallApply ==
    /\ ret = NoCall
    /\ ret' = _apply_cfg_from_db_config(_restore_cfg_baseline(cfg), args.config_json)
    /\ cfg' = ret'.cfg
    /\ UNCHANGED <<args, db_config, lock, req>>
    /\ UNCHANGED <<admin, orderVars>>

SpecApply == InitApply /\ [][CallApply]_vars

(***************************************************************************)
(* SpecFault: calculate_quote reading a module whose attributes hold an    *)
(* inconsistent configuration.                                             *)
(***************************************************************************)
\* A configuration an admin stores to sell 11-gauge 304 plate: the seed
\* config with "0.12" enabled for 304 and with its price, the 0.1302 of
\* tuning_knobs.py line 13, which the filter of line 83 has dropped from the
\* module and from _CFG_BASELINE
ConfigPricingThickness012 ==
    [_default_knobs_config EXCEPT
        !.thickness_enabled_by_material["304"] = @ @@ ("0.12" :> TRUE),
        !.price_per_sq_in["304"] = @ @@ ("0.12" :> 13020)]

\* the modules of SpecFault and SpecPair by name: tuning_knobs with one
\* attribute edited or under a stored configuration, next to the two modules
\* of the repository
ConfiguredModule(name) ==
    CASE name = "density_without_316" ->
            \* the density table an override of density_lb_per_in3 leaves
            [tuning_knobs EXCEPT !.DENSITY_LB_PER_IN3 = ("304" :> 290 @@ "Monel" :> 319)]
      [] name = "zero_mill_speed" ->
            [tuning_knobs EXCEPT !.MILL_SPEED_IPM = 0]
      [] name = "zero_chamfer_speed" ->
            [tuning_knobs EXCEPT !.CHAMFER_SPEED_IPM = 0]
      [] name = "no_discount_tiers" ->
            [tuning_knobs EXCEPT !.QTY_DISCOUNT_TIERS = <<>>]
      [] name = "config_pricing_thickness_0_12" ->
            \* lines 485-486 under the stored ConfigPricingThickness012
            _apply_cfg_from_db_config(_restore_cfg_baseline(tuning_knobs),
                                      ConfigPricingThickness012).cfg
                @@ tuning_knobs
      [] OTHER -> Module(name)

FaultModules ==
    { "tuning_knobs", "pricing_config", "density_without_316", "zero_mill_speed",
      "zero_chamfer_speed", "no_discount_tiers" }

FaultInputs ==
    { QuoteInputs(q, m, 250, 5, ch, 21) :
        q \in 0..MaxQty, m \in {"304", "316", "Titanium"}, ch \in BOOLEAN }

InitFault ==
    /\ args \in [module : FaultModules, x : FaultInputs]
    /\ ret = NoCall
    /\ MainIdle

CallFault ==
    /\ ret = NoCall
    /\ ret' = calculate_quote(ConfiguredModule(args.module), args.x)
    /\ UNCHANGED <<args, cfg, db_config, lock, req>>
    /\ UNCHANGED <<admin, orderVars>>

SpecFault == InitFault /\ [][CallFault]_vars

(***************************************************************************)
(* SpecPair: two calls of calculate_quote on requests that differ in one   *)
(* field, against the same module.                                         *)
(***************************************************************************)
\* quantities on both sides of every min_qty of the shipped discount tiers
TierEdgeQuantities == {1, 4, 5, 9, 10, 24, 25, 49, 50, 51}

\* two requests that differ only in quantity, the smaller first
QuantityPairs ==
    { [x |-> QuoteInputs(qq[1], "304", 250, 5, ch, d),
       y |-> QuoteInputs(qq[2], "304", 250, 5, ch, d)] :
        qq \in { qq \in TierEdgeQuantities \X TierEdgeQuantities : qq[1] < qq[2] },
        ch \in BOOLEAN, d \in {7, 21} }

\* two requests that differ only in chamfer (and in the chamfer_width the
\* caller sends with it), the one without chamfer first
ChamferPairs ==
    { [x |-> WithGeometry(QuoteInputs(q, "304", t, 5, FALSE, 21), hl, 6000, bd),
       y |-> WithGeometry(QuoteInputs(q, "304", t, 5, TRUE, 21), hl, 6000, bd)] :
        q \in 1..MaxQty, t \in {250, 375}, hl \in {3000, 18000}, bd \in {1500, 2000} }

\* two requests for q and q + 1 units of the same part, 0.25 in and 0.375 in
\* thick
ConsecutivePairs ==
    { [x |-> QuoteInputs(q, "304", t, 5, FALSE, 21),
       y |-> QuoteInputs(q + 1, "304", t, 5, FALSE, 21)] :
        q \in 1..MaxQty, t \in {250, 375} }

\* the same in the other thicknesses tuning_knobs.py 11-30 lists: 0.5 in, and
\* 0.12 in (no binary fraction), which is priced once a stored configuration
\* enables it and carries its price
OtherThicknessPairs ==
    { [x |-> QuoteInputs(q, "304", t, 5, FALSE, 21),
       y |-> QuoteInputs(q + 1, "304", t, 5, FALSE, 21)] :
        q \in 1..MaxQty, t \in {120, 500} }

InitPair ==
    /\ args \in { [module |-> name, x |-> pair.x, y |-> pair.y] :
                    name \in {"pricing_config", "tuning_knobs"},
                    pair \in QuantityPairs \cup ChamferPairs \cup ConsecutivePairs }
               \cup { [module |-> "config_pricing_thickness_0_12", x |-> pair.x, y |-> pair.y] :
                        pair \in OtherThicknessPairs }
    /\ ret = NoCall
    /\ MainIdle

CallPair ==
    /\ ret = NoCall
    /\ ret' = [ first  |-> calculate_quote(ConfiguredModule(args.module), args.x),
                second |-> calculate_quote(ConfiguredModule(args.module), args.y) ]
    /\ UNCHANGED <<args, cfg, db_config, lock, req>>
    /\ UNCHANGED <<admin, orderVars>>

SpecPair == InitPair /\ [][CallPair]_vars

(***************************************************************************)
(* Properties.                                                             *)
(***************************************************************************)
\* the five conditions the validation block of calculate_quote requires of x
\* against the module c
ValidInputs(c, x) ==
    /\ x.quantity >= 1
    /\ x.material \in DOMAIN c.PRICE_PER_SQ_IN
    /\ x.thickness \in DOMAIN c.PRICE_PER_SQ_IN[x.material]
    /\ x.bore_tolerance \in DOMAIN c.INSPECTION_MINS_BY_TOL
    /\ x.ships_in_days \in DOMAIN c.LEAD_TIME_MULTIPLIER

\* a call of SpecQty, SpecCalc or SpecApply has been made
Called == ret # NoCall

\* C1: calculate_quote returns a quote only when quantity >= 1, the material
\* is a key of the price table, the thickness a key of the material's price
\* map, the bore tolerance a key of the inspection table and ships_in_days a
\* key of the lead-time table of the module it reads; when one of them fails
\* it raises ValueError (the validation error) and returns no quote.
C1_QuoteOnlyForValidInputs ==
    Called =>
        LET c == Module(args.module)
            x == args.x
        IN  /\ ret.kind = "quote" => ValidInputs(c, x)
            /\ ~ValidInputs(c, x) =>
                  /\ ret.kind = "ValueError"
                  /\ ret.result = NoRecord
                  /\ ret.costs = NoRecord

\* C1 witnesses: a request for a thickness the material has no price for was
\* refused with ValueError
C1_Witness ==
    /\ Called
    /\ args.module = "tuning_knobs"
    /\ args.x.quantity >= 1
    /\ args.x.material \in DOMAIN tuning_knobs.PRICE_PER_SQ_IN
    /\ args.x.thickness \notin DOMAIN tuning_knobs.PRICE_PER_SQ_IN[args.x.material]
    /\ ret.kind = "ValueError"
    /\ ret.msg = "no price for thickness"

\* C2: for a non-empty tier list in any order, _qty_multiplier returns the
\* multiplier of a tier with the largest min_qty that is <= quantity, and
\* when the quantity is below every min_qty the multiplier of a tier with the
\* smallest min_qty.
C2_QtyMultiplierOfHighestTierReached ==
    (Called /\ args.tier_list # <<>>) =>
        LET tiers   == args.tier_list
            idx     == 1..Len(tiers)
            reached == { i \in idx : tiers[i].min_qty <= args.qty }
        IN  /\ ret.raised = ""
            /\ IF reached = {}
               THEN \E i \in idx :
                       /\ \A j \in idx : tiers[i].min_qty <= tiers[j].min_qty
                       /\ ret.multiplier = tiers[i].multiplier
               ELSE \E i \in reached :
                       /\ \A j \in reached : tiers[j].min_qty <= tiers[i].min_qty
                       /\ ret.multiplier = tiers[i].multiplier

\* C2 witness: a list given out of order, asked for a quantity between two
\* of its tiers
C2_Witness ==
    /\ Called
    /\ args.tier_list = << [min_qty |-> 5, multiplier |-> 90],
                           [min_qty |-> 1, multiplier |-> 100],
                           [min_qty |-> 3, multiplier |-> 95] >>
    /\ args.qty = 4
    /\ ret.multiplier = 95

\* C3: for every valid input, subtotal is the sum of the six costs,
\* unit_price (before discount) is subtotal times the lead-time multiplier of
\* ships_in_days, unit_price_discounted is that times the quantity-discount
\* multiplier, and total_price is unit_price_discounted times quantity, all
\* before rounding and each sum and product a float operation, the six costs
\* added from left to right.
C3_PriceComposition ==
    (Called /\ ValidInputs(Module(args.module), args.x)) =>
        LET c  == Module(args.module)
            x  == args.x
            k  == ret.costs
            p  == ret.pricing
            qm == _qty_multiplier(c.QTY_DISCOUNT_TIERS, x.quantity).multiplier
        IN  /\ k # NoRecord
            /\ p # NoRecord
            /\ ret.subtotal =
                  DAdd(DAdd(DAdd(DAdd(DAdd(k.material_cost, k.laser_cost),
                                      k.machine_bore_cost),
                                 k.chamfer_bore_cost),
                            k.load_cost),
                       k.inspection_cost)
            /\ p.unit_price =
                  DMul(ret.subtotal, DDec(c.LEAD_TIME_MULTIPLIER[x.ships_in_days], 1))
            /\ p.unit_price_discounted = DMul(p.unit_price, DDec(qm, 2))
            /\ p.total_price = DMul(p.unit_price_discounted, DOfInt(x.quantity))

\* C3 witness: a quote with a chamfer, a rush lead time and a discounted
\* quantity
C3_Witness ==
    /\ Called
    /\ ret.kind = "quote"
    /\ args.x.chamfer
    /\ args.x.quantity = 5
    /\ args.x.ships_in_days = 7
    /\ ret.costs.chamfer_bore_cost # DOfInt(0)
    /\ ret.pricing.qty_mult # DOfInt(1)

\* what restoring the baseline and applying the override a request fetched
\* leaves in the shared module
OwnConfig(r) == _apply_cfg_from_db_config(_restore_cfg_baseline(cfg), req[r].active).cfg

\* the overridable attributes calculate_quote reads
EngineReads == {"PRICE_PER_SQ_IN", "LEAD_TIME_MULTIPLIER", "DENSITY_LB_PER_IN3"}

\* C4 (refuted by the code): whenever calculate_quote has run for a call, the
\* configuration it read is the baseline with that call's own override
\* applied in full.
C4_CalcReadsOwnConfig ==
    \A r \in Requests :
        req[r].pc = "finally" =>
            /\ cfg = OwnConfig(r)
            /\ \A f \in EngineReads :
                  f \in DOMAIN engine_cfg /\ engine_cfg[f] = OwnConfig(r)[f]

\* C5 (refuted by the code): when a call has left _calculate_quote_with_db_knobs
\* and no other call is inside the lock, every overridable attribute of the
\* shared module has its baseline value.
C5_BaselineRestoredAfterCall ==
    \A r \in Requests :
        (req[r].pc = "respond" /\ lock = 0) => cfg = _CFG_BASELINE

\* C6 (refuted by the code): calculate_quote validates and prices against the
\* configuration _apply_cfg_from_db_config wrote: a request for a material or
\* thickness without an entry in the effective price table is refused with
\* ValueError, and the material cost uses the effective table's price.
C6_CalcReadsAppliedConfig ==
    \A r \in Requests :
        req[r].pc = "finally" =>
            LET x == req[r].inputs
                o == req[r].outcome
            IN  IF x.material \notin DOMAIN cfg.PRICE_PER_SQ_IN
                   \/ x.thickness \notin DOMAIN cfg.PRICE_PER_SQ_IN[x.material]
                THEN o.kind = "ValueError"
                ELSE o.costs # NoRecord =>
                        o.costs.material_cost =
                            DMul(Geometry(x).area_sq_in,
                                  DDec(cfg.PRICE_PER_SQ_IN[x.material][x.thickness], 5))

\* C7: after _apply_cfg_from_db_config returns, every (material, thickness)
\* entry of the effective price table has its material enabled and, when the
\* material has a thickness map, its thickness enabled in that map.
C7_PriceEntriesAreEnabled ==
    (Called /\ ret.raised = "") =>
        \A m \in DOMAIN cfg.PRICE_PER_SQ_IN :
            \A t \in DOMAIN cfg.PRICE_PER_SQ_IN[m] :
                /\ m \in DOMAIN cfg.MATERIAL_ENABLED
                /\ cfg.MATERIAL_ENABLED[m]
                /\ m \in DOMAIN cfg.THICKNESS_ENABLED_BY_MATERIAL =>
                      /\ t \in DOMAIN cfg.THICKNESS_ENABLED_BY_MATERIAL[m]
                      /\ cfg.THICKNESS_ENABLED_BY_MATERIAL[m][t]

\* C7 witness: the override prices 304 at 0.25 and 0.5 in, enables the
\* material and disables the 0.25 in thickness; the effective table keeps 304
\* without the 0.25 in entry
C7_Witness ==
    /\ Called
    /\ ret.raised = ""
    /\ "price_per_sq_in" \in DOMAIN args.config_json
    /\ "304" \in DOMAIN args.config_json.price_per_sq_in
    /\ "0.25" \in DOMAIN args.config_json.price_per_sq_in["304"]
    /\ "304" \in DOMAIN cfg.THICKNESS_ENABLED_BY_MATERIAL
    /\ 250 \in DOMAIN cfg.THICKNESS_ENABLED_BY_MATERIAL["304"]
    /\ ~cfg.THICKNESS_ENABLED_BY_MATERIAL["304"][250]
    /\ "304" \in DOMAIN cfg.PRICE_PER_SQ_IN
    /\ 250 \notin DOMAIN cfg.PRICE_PER_SQ_IN["304"]

\* C8 (refuted by the code): after _apply_cfg_from_db_config returns, a lead
\* time whose lead_time_enabled flag is false is no key of the effective
\* lead-time multiplier table.
C8_DisabledLeadTimeRemoved ==
    (Called /\ ret.raised = "") =>
        LET lt_enabled == GetOrEmpty(args.config_json, "lead_time_enabled")
        IN  \A d_str \in DOMAIN lt_enabled :
                ~lt_enabled[d_str] => ParseInt(d_str) \notin DOMAIN cfg.LEAD_TIME_MULTIPLIER

\* the baseline price table restricted to the entries the flags of c enable
BaselineFilteredBy(c) ==
    LET base == _CFG_BASELINE.PRICE_PER_SQ_IN
        on(m, t) ==
            /\ DictGet(c.MATERIAL_ENABLED, m, FALSE)
            /\ m \in DOMAIN c.THICKNESS_ENABLED_BY_MATERIAL =>
                  DictGet(c.THICKNESS_ENABLED_BY_MATERIAL[m], t, FALSE)
    IN  [ m \in { m \in DOMAIN base : \E t \in DOMAIN base[m] : on(m, t) } |->
            [ t \in { t \in DOMAIN base[m] : on(m, t) } |-> base[m][t] ] ]

\* the price table of an override: its price_per_sq_in, the baseline table
\* when it has none
OverridePrices(config_json) ==
    IF DOMAIN GetOrEmpty(config_json, "price_per_sq_in") = {}
    THEN _baseline_price_per_sq_in_as_db_shape
    ELSE config_json.price_per_sq_in

\* C9: when filtering the override's price table by the effective flags
\* leaves no entry, the effective price table is the baseline price table
\* filtered by those same flags.
C9_FallbackIsFilteredBaseline ==
    (/\ Called
     /\ ret.raised = ""
     /\ DOMAIN FilterPrices(cfg, OverridePrices(args.config_json)) = {}) =>
        cfg.PRICE_PER_SQ_IN = BaselineFilteredBy(cfg)

\* C9 witness: the override prices only a material it does not enable; the
\* effective table is the baseline's, without the material the override
\* disables
C9_Witness ==
    /\ Called
    /\ ret.raised = ""
    /\ "price_per_sq_in" \in DOMAIN args.config_json
    /\ DOMAIN args.config_json.price_per_sq_in = {"Titanium"}
    /\ "material_enabled" \in DOMAIN args.config_json
    /\ ~args.config_json.material_enabled["304"]
    /\ "304" \notin DOMAIN cfg.PRICE_PER_SQ_IN
    /\ "316" \in DOMAIN cfg.PRICE_PER_SQ_IN

\* the override enables no material
DisablesEveryMaterial(config_json) ==
    /\ "material_enabled" \in DOMAIN config_json
    /\ \A m \in DOMAIN config_json.material_enabled : ~config_json.material_enabled[m]

\* C10 (refuted by the code): a quote requested while the active override
\* disables every material ends with a configuration error answered as a
\* server error, not with ValueError and not with a quote.
C10_AllDisabledIsConfigurationError ==
    \A r \in Requests :
        (req[r].pc = "done" /\ DisablesEveryMaterial(req[r].active)) =>
            /\ req[r].outcome.kind = "ConfigurationError"
            /\ req[r].status = 500

\* the keys of a knobs configuration and the attribute of the shared module
\* each one overrides
OverridableFields ==
    { <<"price_per_sq_in", "PRICE_PER_SQ_IN">>,
      <<"material_enabled", "MATERIAL_ENABLED">>,
      <<"thickness_enabled_by_material", "THICKNESS_ENABLED_BY_MATERIAL">>,
      <<"lead_time_enabled", "LEAD_TIME_ENABLED">>,
      <<"default_lead_time_days", "DEFAULT_LEAD_TIME_DAYS">>,
      <<"density_lb_per_in3", "DENSITY_LB_PER_IN3">>,
      <<"weight_multiplier_by_material", "WEIGHT_MULTIPLIER_BY_MATERIAL">> }

\* C11 (refuted by the code): after _apply_cfg_from_db_config returns, every
\* overridable field the override leaves out (price table, material-enabled
\* map, thickness-enabled map, lead-time-enabled map, default lead time,
\* density, weight multiplier) has the baseline's value in the effective
\* configuration.
C11_OmittedFieldsKeepBaseline ==
    (Called /\ ret.raised = "") =>
        \A f \in OverridableFields :
            f[1] \notin DOMAIN args.config_json => cfg[f[2]] = _CFG_BASELINE[f[2]]

\* C12 (refuted by the code): calculate_quote refuses with ValueError, and
\* returns no quote for, every input whose bore_dia is not strictly less than
\* its paddle_dia.
C12_BoreNotBelowPaddleRejected ==
    (Called /\ args.x.bore_dia >= args.x.paddle_dia) =>
        /\ ret.kind = "ValueError"
        /\ ret.result = NoRecord

\* C13 (refuted by the code): calculate_quote refuses with ValueError, and
\* returns no quote for, every input whose handle_length_from_bore does not
\* exceed paddle_dia / 2.
C13_HandleNotClearingPaddleRejected ==
    (Called /\ 2 * args.x.handle_length_from_bore <= args.x.paddle_dia) =>
        /\ ret.kind = "ValueError"
        /\ ret.result = NoRecord

\* C14 (refuted by the code): calculate_quote refuses with ValueError, and
\* returns no quote for, every input whose paddle_dia is greater than 48 in.
C14_PaddleOverCapRejected ==
    (Called /\ args.x.paddle_dia > 48000) =>
        /\ ret.kind = "ValueError"
        /\ ret.result = NoRecord

\* the i-th validation check of calculate_quote fails for x against module c
\* (a thickness cannot be looked up for a material without a price map)
Violates(i, c, x) ==
    CASE i = 1 -> x.quantity < 1
      [] i = 2 -> x.material \notin DOMAIN c.PRICE_PER_SQ_IN
      [] i = 3 -> \/ x.material \notin DOMAIN c.PRICE_PER_SQ_IN
                  \/ x.thickness \notin DOMAIN c.PRICE_PER_SQ_IN[x.material]
      [] i = 4 -> x.bore_tolerance \notin DOMAIN c.INSPECTION_MINS_BY_TOL
      [] i = 5 -> x.ships_in_days \notin DOMAIN c.LEAD_TIME_MULTIPLIER

\* the message of the i-th check
CheckMessage(i) ==
    CASE i = 1 -> "quantity must be >= 1"
      [] i = 2 -> "unknown material"
      [] i = 3 -> "no price for thickness"
      [] i = 4 -> "unsupported bore tolerance"
      [] i = 5 -> "unsupported ships_in_days"

\* C15: the checks of calculate_quote run in the order quantity, material,
\* thickness, bore tolerance, lead time, before anything is computed: for an
\* input violating one or several of them the call ends with the ValueError
\* of the first violated check in that order, having computed no cost, no
\* subtotal, no price, no shipping value and no quote.
C15_FirstViolatedCheckReported ==
    Called =>
        \A i \in 1..5 :
            (/\ Violates(i, Module(args.module), args.x)
             /\ \A j \in 1..(i - 1) : ~Violates(j, Module(args.module), args.x)) =>
                /\ ret.kind = "ValueError"
                /\ ret.msg = CheckMessage(i)
                /\ ret.costs = NoRecord
                /\ ret.subtotal = <<>>
                /\ ret.pricing = NoRecord
                /\ ret.shipping = NoRecord
                /\ ret.result = NoRecord

\* C15 witness: a request violating the quantity, material, bore tolerance
\* and lead time checks together was refused for its quantity
C15_Witness ==
    /\ Called
    /\ args.x.quantity = 0
    /\ args.x.material = "Titanium"
    /\ args.x.bore_tolerance = 3
    /\ args.x.ships_in_days = 10
    /\ ret.kind = "ValueError"
    /\ ret.msg = "quantity must be >= 1"
    /\ ret.costs = NoRecord

\* C16 (refuted by the code): a call of calculate_quote that returns no quote
\* ends with the validation error or with a configuration error, whatever
\* fault the configuration has (a priced material without a density, no
\* density table, a zero mill or chamfer speed, no discount tiers).
C16_OnlyTwoKindsOfFailure ==
    Called => ret.kind \in {"quote", "ValueError", "ConfigurationError"}

\* C17 (refuted by the code): with an empty quantity-discount tier list,
\* calculate_quote ends a request that passes validation with a
\* configuration error and returns no quote.
C17_EmptyTiersIsConfigurationError ==
    (/\ Called
     /\ ConfiguredModule(args.module).QTY_DISCOUNT_TIERS = <<>>
     /\ ValidInputs(ConfiguredModule(args.module), args.x)) =>
        /\ ret.kind = "ConfigurationError"
        /\ ret.result = NoRecord

\* the two calls of SpecPair were made on requests that differ only in
\* quantity
QuantityPairCalled ==
    /\ Called
    /\ args.x.quantity < args.y.quantity
    /\ \A f \in DOMAIN args.x \ {"quantity"} : args.x[f] = args.y[f]

\* C18 (refuted by the code): with the shipped discount tiers, of two valid
\* requests that differ only in quantity the one for more units never has the
\* lower total price, before rounding and in the returned quote.
C18_TotalPriceNeverDecreases ==
    QuantityPairCalled =>
        /\ ret.first.pricing # NoRecord
        /\ ret.second.pricing # NoRecord
        /\ DLeq(ret.first.pricing.total_price, ret.second.pricing.total_price)
        /\ (ret.first.kind = "quote" /\ ret.second.kind = "quote") =>
              ret.first.result.total_price <= ret.second.result.total_price

\* C19: with the shipped discount tiers, of two valid requests that differ
\* only in quantity the one for more units never has the higher quantity
\* discount multiplier nor the higher unit price, before rounding and in the
\* returned quote.
C19_UnitPriceNeverIncreases ==
    QuantityPairCalled =>
        /\ ret.first.pricing # NoRecord
        /\ ret.second.pricing # NoRecord
        /\ DLeq(ret.second.pricing.qty_mult, ret.first.pricing.qty_mult)
        /\ DLeq(ret.second.pricing.unit_price_discounted,
                ret.first.pricing.unit_price_discounted)
        /\ (ret.first.kind = "quote" /\ ret.second.kind = "quote") =>
              /\ DLeq(ret.second.result.qty_discount_multiplier,
                      ret.first.result.qty_discount_multiplier)
              /\ ret.second.result.unit_price <= ret.first.result.unit_price

\* C19 witness: quotes for 4 and for 5 units, the second with the 0.97
\* multiplier and the lower unit price
C19_Witness ==
    /\ QuantityPairCalled
    /\ args.module = "tuning_knobs"
    /\ args.x.quantity = 4
    /\ args.y.quantity = 5
    /\ ret.first.kind = "quote"
    /\ ret.second.kind = "quote"
    /\ ret.first.result.qty_discount_multiplier = DDec(100, 2)
    /\ ret.second.result.qty_discount_multiplier = DDec(97, 2)
    /\ ret.second.result.unit_price < ret.first.result.unit_price

\* the two calls of SpecPair were made on requests that differ only in
\* chamfer and the chamfer_width sent with it, and both returned a quote
ChamferPairQuoted ==
    /\ Called
    /\ ~args.x.chamfer
    /\ args.y.chamfer
    /\ \A f \in DOMAIN args.x \ {"chamfer", "chamfer_width"} : args.x[f] = args.y[f]
    /\ ret.first.kind = "quote"
    /\ ret.second.kind = "quote"

\* the fields of a quote that chamfer has no part in
ChamferFreeFields ==
    { "area_sq_in", "linear_inches", "material_cost", "laser_cost",
      "machine_bore_cost", "load_cost", "inspection_cost",
      "estimated_unit_weight_lb", "estimated_total_weight_lb",
      "estimated_package_in", "shipping" }

\* the quotes with and without chamfer agree on every chamfer-free field and
\* the quote without chamfer has chamfer cost 0
ChamferTouchesNothingElse ==
    /\ \A f \in ChamferFreeFields : ret.first.result[f] = ret.second.result[f]
    /\ ret.first.result.chamfer_bore_cost = 0
    /\ ret.first.costs.chamfer_bore_cost = DOfInt(0)

\* by how many cents the subtotal of the quote with chamfer exceeds the
\* subtotal of the quote without chamfer plus the chamfer cost
SubtotalExcess ==
    ret.second.result.subtotal_pre_multiplier
        - ret.first.result.subtotal_pre_multiplier
        - ret.second.result.chamfer_bore_cost

\* C20 as stated (refuted): the quotes of two valid requests equal except
\* for chamfer agree on geometry, material, cutting, bore machining, load and
\* inspection cost and on the shipping fields, the chamfer cost is zero
\* without chamfer, and the subtotal with chamfer is the subtotal without
\* chamfer plus exactly the chamfer cost.
C20_SubtotalDiffersByExactlyChamferCost ==
    ChamferPairQuoted => (ChamferTouchesNothingElse /\ SubtotalExcess = 0)

\* C20 amended: the quotes of two valid requests equal except for chamfer
\* agree on geometry, material, cutting, bore machining, load and inspection
\* cost and on the shipping fields, the chamfer cost is zero without chamfer,
\* and the subtotal with chamfer is the subtotal without chamfer plus the
\* chamfer cost to within one cent, each of the three fields being rounded
\* to cents on its own.
C20_SubtotalDiffersByChamferCostWithinACent ==
    ChamferPairQuoted =>
        (ChamferTouchesNothingElse /\ SubtotalExcess \in {-1, 0, 1})

\* C20 witness: a pair of quotes whose rounded subtotals differ by one cent
\* less than the rounded chamfer cost (handle 3 in, bore 2 in: 120.91,
\* 188.19 and 67.29)
C20_Witness ==
    /\ ChamferPairQuoted
    /\ args.x.handle_length_from_bore = 3000
    /\ args.x.bore_dia = 2000
    /\ ret.second.result.chamfer_bore_cost = 6729
    /\ SubtotalExcess = -1

(***************************************************************************)
(* The ways a request body becomes QuoteInputs: /quote normalises the      *)
(* optional fields of the raw JSON body, /checkout/create and              *)
(* /checkout/cart/create dump a validated QuoteRequest, a direct caller    *)
(* constructs QuoteInputs itself.  The HTTP routes reach calculate_quote   *)
(* through _calculate_quote_with_db_knobs, a checkout goes on to Stripe    *)
(* and the orders table; SpecRoute draws the route, the binding of         *)
(* pricing_engine.cfg and the body.                                        *)
(***************************************************************************)
\* a key the body does not carry
Absent == -2

\* the chamfer_width normalisation of /quote on the raw body
quote(payload) ==
    [payload EXCEPT !.chamfer_width =
        IF payload.chamfer
        THEN IF payload.chamfer_width \in {Absent, None, EmptyString}
             THEN 62 ELSE payload.chamfer_width
        ELSE None]

\* QuoteRequest(...).model_dump(): an omitted chamfer_width is 0.062
QuoteRequest(payload) ==
    [payload EXCEPT !.chamfer_width = IF @ = Absent THEN 62 ELSE @]

\* QuoteInputs(**payload): an omitted chamfer_width is None
QuoteInputsOf(payload) ==
    [payload EXCEPT !.chamfer_width = IF @ = Absent THEN None ELSE @]

Routes == {"quote", "checkout_create", "checkout_cart_create", "calculate_quote"}

\* the items of the largest cart
MaxItems == 2

\* what reaches QuoteInputs(...) on a route from a body item
RouteInputs(route, payload) ==
    CASE route = "quote" -> QuoteInputsOf(quote(payload))
      [] route \in {"checkout_create", "checkout_cart_create"} ->
            QuoteInputsOf(QuoteRequest(payload))
      [] OTHER -> QuoteInputsOf(payload)

\* calculate_quote(QuoteInputs(**payload)) called directly; "" is not a
\* float and fails the validation of QuoteInputs
RouteQuote(c, payload) ==
    The({ IF x.chamfer_width = EmptyString
          THEN ValidationError
          ELSE calculate_quote(c, x)
          : x \in {RouteInputs("calculate_quote", payload)} })

Payloads ==
    { [QuoteInputs(q, "304", t, 5, ch, 21) EXCEPT !.chamfer_width = cw] :
        q \in {1, 2}, t \in {250, 375}, ch \in BOOLEAN,
        cw \in {Absent, None, EmptyString, 62, 125} }

\* a cart holds items copies of the payload; the other routes take one item
RouteCalls ==
    { a \in [route : Routes, module : {"pricing_config", "tuning_knobs"},
             payload : Payloads, items : 0..MaxItems] :
        a.route = "checkout_cart_create" \/ a.items = 1 }

InitRoute ==
    /\ args \in RouteCalls
    /\ ret = NoCall
    /\ MainIdle

\* a direct call of calculate_quote: no handler, no database, the module as
\* it was imported
CallRoute ==
    /\ args.route = "calculate_quote"
    /\ ret = NoCall
    /\ ret' = RouteQuote(Module(args.module), args.payload)
    /\ UNCHANGED <<args, cfg, db_config, lock, req>>
    /\ UNCHANGED <<admin, orderVars>>

\* the one request of SpecRoute, then the steps of its handler
NextRoute ==
    \/ CallRoute
    \/ /\ args.route = "quote"
       /\ Serve(1, "quote", <<RouteInputs("quote", args.payload)>>)
    \/ /\ args.route = "checkout_create"
       /\ checkout_create(2, RouteInputs("checkout_create", args.payload))
    \/ /\ args.route = "checkout_cart_create"
       /\ checkout_cart_create(2, [i \in 1..args.items |->
                                    RouteInputs("checkout_cart_create", args.payload)])
    \/ \E r \in Requests : Fetch(r)
    \/ \E r \in Requests : Seed(r)
    \/ \E r \in Requests : Refresh(r)
    \/ \E r \in Requests : Acquire(r)
    \/ \E r \in Requests : RestoreBefore(r)
    \/ \E r \in Requests : Apply(r)
    \/ \E r \in Requests : Calc(r)
    \/ \E r \in Requests : RestoreAfter(r)
    \/ \E r \in Requests : Release(r)
    \/ \E r \in Requests : StripeCreate(r)
    \/ \E r \in Requests : SelectOrder(r)
    \/ \E r \in Requests : InsertOrder(r)
    \/ \E r \in Requests : Respond(r)

SpecRoute == InitRoute /\ [][NextRoute]_vars

\* the quotes computed so far: by the direct call, and by the calls of
\* _calculate_quote_with_db_knobs of the request's handler
RouteQuotes ==
    (IF Called /\ ret.kind = "quote" THEN {ret.result} ELSE {})
    \cup { req[r].outcome.result :
             r \in { q \in Requests : /\ req[q].outcome # NoRecord
                                      /\ req[q].outcome.kind = "quote" } }

\* C21: on every route that builds QuoteInputs and computes a quote, the
\* chamfer_width echoed in the quote is None whenever the request's chamfer
\* is false.
C21_ChamferWidthAbsentWithoutChamfer ==
    ~args.payload.chamfer => \A q \in RouteQuotes : q.chamfer_width = None

\* the two calls of SpecPair were made on requests for q and q + 1 units of
\* the same part and both returned a quote
ConsecutivePairQuoted ==
    /\ QuantityPairCalled
    /\ args.y.quantity = args.x.quantity + 1
    /\ ret.first.kind = "quote"
    /\ ret.second.kind = "quote"

\* the exact height of the package of a request in 1/1000 in: one inch and
\* one thickness for every unit beyond the first
StackHeight(x) == 1000 + (x.quantity - 1) * x.thickness

\* |a - b|
Apart(a, b) == IF a >= b THEN a - b ELSE b - a

\* C22 (as stated, refuted): with geometry, material and thickness fixed, the
\* package height of the quote is 1.0 in for one unit and the quote for one
\* more unit has a package exactly one thickness higher; the unit weight does
\* not depend on the quantity and the total weight is the unit weight times
\* the quantity.
C22_PackageGrowsByThicknessPerUnit ==
    ConsecutivePairQuoted =>
        /\ args.x.quantity = 1 => ret.first.result.estimated_package_in.height = 100
        /\ 10 * (ret.second.result.estimated_package_in.height
                   - ret.first.result.estimated_package_in.height) = args.x.thickness
        /\ ret.first.result.estimated_unit_weight_lb
              = ret.second.result.estimated_unit_weight_lb
        /\ ret.first.result.estimated_total_weight_lb
              = ret.first.result.estimated_unit_weight_lb * args.x.quantity
        /\ ret.second.result.estimated_total_weight_lb
              = ret.second.result.estimated_unit_weight_lb * args.y.quantity

\* C22 (amended): with geometry, material and thickness fixed, the package
\* height of the quote is 1.0 in plus one thickness per unit beyond the
\* first, rounded to two decimals, so that the quote for one more unit has a
\* package one thickness higher to within 0.01 in; the unit weight does not
\* depend on the quantity and the total weight is the unit weight times the
\* quantity to within the rounding of the two fields.
C22_PackageGrowsByThicknessWithinRounding ==
    ConsecutivePairQuoted =>
        /\ args.x.quantity = 1 => ret.first.result.estimated_package_in.height = 100
        /\ Apart(10 * ret.first.result.estimated_package_in.height,
                 StackHeight(args.x)) <= 5
        /\ Apart(10 * ret.second.result.estimated_package_in.height,
                 StackHeight(args.y)) <= 5
        /\ Apart(10 * (ret.second.result.estimated_package_in.height
                         - ret.first.result.estimated_package_in.height),
                 args.x.thickness) <= 10
        /\ ret.first.result.estimated_unit_weight_lb
              = ret.second.result.estimated_unit_weight_lb
        /\ 2 * Apart(ret.first.result.estimated_total_weight_lb,
                     ret.first.result.estimated_unit_weight_lb * args.x.quantity)
              <= args.x.quantity + 1
        /\ 2 * Apart(ret.second.result.estimated_total_weight_lb,
                     ret.second.result.estimated_unit_weight_lb * args.y.quantity)
              <= args.y.quantity + 1

\* C22 witness: quotes for 2 and for 3 plates 0.375 in thick, whose packages
\* are reported 1.38 in and 1.75 in high
C22_Witness ==
    /\ ConsecutivePairQuoted
    /\ args.x.quantity = 2
    /\ args.x.thickness = 375
    /\ ret.first.result.estimated_package_in.height = 138
    /\ ret.second.result.estimated_package_in.height = 175
    /\ ret.second.result.estimated_total_weight_lb = 4097

\* ui_app's weight estimate of a request, in 1/100 lb: area times thickness
\* times density times quantity times the material's weight multiplier, with
\* ui_app's fallbacks for a module without the two tables
_estimate_total_weight_lb(c, material, area_sq_in, thickness, qty) ==
    LET densities == IF "DENSITY_LB_PER_IN3" \in DOMAIN c /\ DOMAIN c.DENSITY_LB_PER_IN3 # {}
                     THEN c.DENSITY_LB_PER_IN3
                     ELSE [m \in {"304", "316"} |-> 289] @@ ("Carbon Steel" :> 283)
                          @@ ("Monel" :> 319) @@ ("Hastelloy" :> 321)
        mult_map  == IF "WEIGHT_MULTIPLIER_BY_MATERIAL" \in DOMAIN c
                     THEN c.WEIGHT_MULTIPLIER_BY_MATERIAL ELSE <<>>
        density   == DDec(DictGet(densities, material, 289), 3)
        mult      == DDec(DictGet(mult_map, material, 100), 2)
    IN  DRound(DMul(DMul(DMul(DMul(area_sq_in, thickness), density), DOfInt(qty)), mult), 2)

\* unit weight with the material's weight multiplier (1.0 without an entry)
UnitWeightWithMultiplier(c, x) ==
    DMul(DMul(DMul(Geometry(x).area_sq_in, DDec(x.thickness, 3)),
                DDec(c.DENSITY_LB_PER_IN3[x.material], 3)),
          DDec(DictGet(c.WEIGHT_MULTIPLIER_BY_MATERIAL, x.material, 100), 2))

\* C23: the unit weight of a quote is area times thickness times density
\* times the material's weight multiplier, and the reported total weight is
\* the estimate ui_app makes for the same request with the multiplier applied
\* (304: 1.06).
C23_WeightIncludesMultiplier ==
    (Called /\ ret.kind = "quote") =>
        /\ ret.shipping.unit_weight_lb = UnitWeightWithMultiplier(Module(args.module), args.x)
        /\ ret.result.estimated_total_weight_lb
              = _estimate_total_weight_lb(Module(args.module), args.x.material,
                    Geometry(args.x).area_sq_in, DDec(args.x.thickness, 3),
                    args.x.quantity)

(***************************************************************************)
(* _ups_rule_shipping_cents on its own (SpecShip): weights and package     *)
(* sides in 1/100, chosen so that the scale weight, the dimensional weight *)
(* and the 1 lb floor each decide the billable weight in some call, and    *)
(* that whole-pound values occur (69.5 x 4 x 1 in is 2 lb exactly), also   *)
(* one whose float quotient lies just above the whole number (9.73 x 10 x  *)
(* 10 in: 973.0000000000001 / 139 is 7.000000000000001, billed as 8 lb).   *)
(***************************************************************************)
ShipInputs ==
    [ weight_lb : {0, 50, 100, 125, 910, 3800, 3801, 6200},
      length_in : {973, 2500, 6950}, width_in : {400, 1000},
      height_in : {100, 200, 1000, 1250} ]

InitShip ==
    /\ args \in ShipInputs
    /\ ret = NoCall
    /\ MainIdle

CallShip ==
    /\ ret = NoCall
    /\ ret' = _ups_rule_shipping_cents(DDec(args.weight_lb, 2), DDec(args.length_in, 2),
                                       DDec(args.width_in, 2), DDec(args.height_in, 2))
    /\ UNCHANGED <<args, cfg, db_config, lock, req>>
    /\ UNCHANGED <<admin, orderVars>>

SpecShip == InitShip /\ [][CallShip]_vars

\* b whole pounds are at least the scale weight, the dimensional weight
\* L * W * H / 139 (in float arithmetic, as every amount of the rule) and
\* 1 lb of the call
BillableCovers(b) ==
    /\ b >= 1
    /\ DLeq(DDec(args.weight_lb, 2), DOfInt(b))
    /\ DLeq(DDivInt(DMul(DMul(DDec(args.length_in, 2), DDec(args.width_in, 2)),
                          DDec(args.height_in, 2)), 139),
            DOfInt(b))

\* the billable weight a ground rate stands for
BilledPounds == (ret.ups_ground_cents - 1200) \div 95

\* the distance of a and b
Distance(a, b) == IF a >= b THEN a - b ELSE b - a

\* C24: the ground rate is 12.00 plus 0.95 per billable pound, the billable
\* weight being the least whole number of pounds that is at least the total
\* weight, at least L * W * H / 139 and at least 1; the three rates are
\* whole cents; the 2-day and next-day rates are 1.85 and 2.85 times the
\* ground rate, rounded to the cent; and ground <= 2-day <= next-day.
C24_ShippingRatesOfBillableWeight ==
    Called =>
        /\ ret.ups_ground_cents = 1200 + 95 * BilledPounds
        /\ BillableCovers(BilledPounds)
        /\ ~BillableCovers(BilledPounds - 1)
        /\ \A f \in DOMAIN ret : ret[f] \in Nat
        /\ Distance(100 * ret.ups_2day_cents, 185 * ret.ups_ground_cents) <= 50
        /\ Distance(100 * ret.ups_nextday_cents, 285 * ret.ups_ground_cents) <= 50
        /\ ret.ups_ground_cents <= ret.ups_2day_cents
        /\ ret.ups_2day_cents <= ret.ups_nextday_cents

\* C24 witness: 0.5 lb in a 69.5 x 10 x 12.5 in package are billed as 63 lb,
\* the dimensional weight 62.5 lb rounded up
C24_Witness ==
    /\ Called
    /\ args = [weight_lb |-> 50, length_in |-> 6950, width_in |-> 1000, height_in |-> 1250]
    /\ BilledPounds = 63
    /\ ret.ups_ground_cents = 7185

\* the amount checkout_create charges for a quote, in cents (line 667):
\* round(float(result["total_price"]) * 100) of the total rounded to cents
total_cents(result) ==
    IF "total_price_cents" \in DOMAIN result /\ result.total_price_cents # 0
    THEN result.total_price_cents
    ELSE DRoundInt(DMul(DDec(result.total_price, 2), DOfInt(100)))

\* C25: the reported total price is the reported unit price times the
\* quantity to the cent, and the cents charged at checkout are the quantity
\* times the unit price in cents.
C25_TotalIsUnitPriceTimesQuantity ==
    (Called /\ ret.kind = "quote") =>
        /\ ret.result.total_price = ret.result.unit_price * args.x.quantity
        /\ total_cents(ret.result) = args.x.quantity * ret.result.unit_price

\* C26: resolving the configuration of a quote writes no shared module
\* attribute and takes no process-wide lock: every step of the service
\* leaves the attributes of the shared module and the lock as they were, so
\* that calculations never wait for each other.
C26_NoSharedConfigNoLock == [][cfg' = cfg /\ lock' = lock]_vars

\* requests between acquiring and releasing the configuration lock
InCriticalSection == { r \in Requests : req[r].pc \in {"restore", "apply", "calc", "finally", "release"} }

\* what the code does instead: at most one request at a time is between
\* acquire and release, and that request holds the lock
CalculationsSerialized ==
    /\ Cardinality(InCriticalSection) <= 1
    /\ \A r \in InCriticalSection : lock = r

(***************************************************************************)
(* Orders: a checkout creates a Stripe session and saves its pending       *)
(* order, stripe_webhook completes the order (inserting it when it finds   *)
(* none) and _assign_order_number numbers it.  Every statement that reads  *)
(* or writes the table is one step; the table holds committed rows only    *)
(* (each database session reads what is committed when its statement runs, *)
(* and a commit that breaks a unique index raises IntegrityError).         *)
(***************************************************************************)
\* range(6)
Attempts == 6

\* db.query(func.max(Order.order_number)).scalar() or 0
MaxOrderNumber(table) ==
    The({ CHOOSE n \in numbers : \A m \in numbers : m <= n
          : numbers \in {{0} \cup { table[k] : k \in DOMAIN table }} })

\* A checkout served by another worker process of the service.  Its thread
\* is not followed, only what it does to Stripe and to the table: the
\* session it creates (line 674) ...
other_checkout_create(s) ==
    /\ s \notin stripe_sessions
    /\ \A j \in 1..(s - 1) : j \in stripe_sessions
    /\ stripe_sessions' = stripe_sessions \cup {s}
    /\ UNCHANGED <<orders, hook>>
    /\ UNCHANGED quoteVars

\* ... and the pending order it commits (lines 733-734) unless the webhook
\* has inserted the order of the session before
other_checkout_save(s) ==
    /\ s \in stripe_sessions
    /\ s \notin DOMAIN orders
    /\ \A r \in Requests : req[r].session # s
    /\ orders' = orders @@ (s :> None)
    /\ UNCHANGED <<stripe_sessions, hook>>
    /\ UNCHANGED quoteVars

\* the rows of the table that carry an order number
Numbered(table) == { k \in DOMAIN table : table[k] # None }

\* a checkout of another worker, completed while fewer sessions wait for
\* their order number than there are executions to number them
other_checkout_paced(s) ==
    /\ Cardinality(stripe_sessions \ Numbered(orders)) < NHook
    /\ other_checkout_create(s)

\* Stripe delivers checkout.session.completed of session s to execution w
Deliver(w, s) ==
    /\ hook[w].pc = "idle"
    /\ s \in stripe_sessions
    /\ hook' = [hook EXCEPT ![w] = [HookIdle EXCEPT !.pc = "find", !.session = s]]
    /\ UNCHANGED <<stripe_sessions, orders>>
    /\ UNCHANGED quoteVars

\* a delivery while no other execution is at work on the same order
DeliverAlone(w, s) ==
    /\ \A v \in Hooks \ {w} : hook[v].pc = "idle" \/ hook[v].session # s
    /\ Deliver(w, s)

\* a delivery of a session whose order has no number yet: the first one, or
\* the one Stripe repeats after a delivery was answered 500
DeliverUnnumbered(w, s) ==
    /\ s \in DOMAIN orders => orders[s] = None
    /\ DeliverAlone(w, s)

\* line 1071: the SELECT of the order of the session
Find(w) ==
    /\ hook[w].pc = "find"
    /\ IF hook[w].session \in DOMAIN orders
       THEN hook' = [hook EXCEPT ![w].pc = "update",
                                 ![w].order_number = orders[hook[w].session]]
       ELSE hook' = [hook EXCEPT ![w].pc = "insert"]
    /\ UNCHANGED <<stripe_sessions, orders>>
    /\ UNCHANGED quoteVars

\* lines 1072-1075: the INSERT of the order is committed; when another
\* session has inserted the order of the session since the SELECT the commit
\* raises IntegrityError, which leaves stripe_webhook (finally: db.close())
\* and is answered 500
Insert(w) ==
    /\ hook[w].pc = "insert"
    /\ IF hook[w].session \in DOMAIN orders
       THEN /\ orders' = orders
            /\ hook' = [hook EXCEPT ![w].pc = "raised", ![w].error = "IntegrityError",
                                    ![w].status = 500]
       ELSE /\ orders' = orders @@ (hook[w].session :> None)
            /\ hook' = [hook EXCEPT ![w].pc = "loaded"]
    /\ UNCHANGED stripe_sessions
    /\ UNCHANGED quoteVars

\* line 1076: db.refresh(o) reads the row as it is now
Loaded(w) ==
    /\ hook[w].pc = "loaded"
    /\ hook' = [hook EXCEPT ![w].pc = "update",
                            ![w].order_number = orders[hook[w].session]]
    /\ UNCHANGED <<stripe_sessions, orders>>
    /\ UNCHANGED quoteVars

\* lines 1078-1091: the UPDATE of the order's payment fields is committed
\* (it writes no column followed here) and db.refresh(o) reads the row as it
\* is now; then the entry of _assign_order_number (lines 203-204)
Update(w) ==
    /\ hook[w].pc = "update"
    /\ LET n == orders[hook[w].session]
       IN  hook' = [hook EXCEPT ![w].order_number = n,
                                ![w].pc = IF n # None THEN "done" ELSE "query",
                                ![w].attempt = IF n # None THEN 0 ELSE 1,
                                ![w].status = IF n # None THEN 200 ELSE 0]
    /\ UNCHANGED <<stripe_sessions, orders>>
    /\ UNCHANGED quoteVars

\* What the SELECT of line 207 reads.  The session autoflushes (sessionmaker
\* of line 75): from the second attempt on, the o.order_number = None of line
\* 215 is sent as an UPDATE of the own row before the SELECT, inside the
\* transaction, so that the own row counts as having no number whatever is
\* committed on it.  On the first attempt nothing is pending and the rows
\* are read as committed.
RowsSeen(w) ==
    IF hook[w].attempt > 1
    THEN [orders EXCEPT ![hook[w].session] = None]
    ELSE orders

\* lines 207-208
Query(w) ==
    /\ hook[w].pc = "query"
    /\ hook' = [hook EXCEPT ![w].next_num = MaxOrderNumber(RowsSeen(w)) + 1,
                            ![w].order_number = MaxOrderNumber(RowsSeen(w)) + 1,
                            ![w].pc = "commit"]
    /\ UNCHANGED <<stripe_sessions, orders>>
    /\ UNCHANGED quoteVars

\* the unique index on order_number refuses the number for this row
NumberTaken(w) ==
    \E k \in DOMAIN orders \ {hook[w].session} : orders[k] = hook[w].next_num

\* where an execution goes after a refused commit
AfterConflict(w) ==
    [hook EXCEPT ![w].pc = IF hook[w].attempt = Attempts THEN "raised" ELSE "query",
                 ![w].attempt = IF hook[w].attempt = Attempts THEN @ ELSE @ + 1,
                 ![w].error = IF hook[w].attempt = Attempts THEN "HTTPException" ELSE "",
                 ![w].status = IF hook[w].attempt = Attempts THEN 500 ELSE 0]

\* Variant of Rollback that leaves the number on the order (C28 depends on
\* line 215).
RollbackKeepingNumber(w) == AfterConflict(w)

\* lines 213-217: the next attempt, or HTTPException after the last one
Rollback(w) ==
    [AfterConflict(w) EXCEPT ![w].order_number = None]

\* db.commit() of line 210 raising an exception that is not IntegrityError
\* (the database refuses or loses the transaction): nothing is written,
\* line 213 does not catch it, and it leaves _assign_order_number and
\* stripe_webhook with the number of line 208 still on the Order
CommitFails(w) ==
    /\ orders' = orders
    /\ hook' = [hook EXCEPT ![w].pc = "raised", ![w].error = "OperationalError",
                            ![w].status = 500]

\* Variant of Commit on a column without the unique index (C27 depends on
\* line 107).
CommitWithoutUniqueIndex(w) ==
    /\ hook[w].pc = "commit"
    /\ \/ /\ orders' = [orders EXCEPT ![hook[w].session] = hook[w].next_num]
          /\ hook' = [hook EXCEPT ![w].pc = "refresh"]
       \/ CommitFails(w)
    /\ UNCHANGED stripe_sessions
    /\ UNCHANGED quoteVars

\* lines 209-210 and 213-217: db.commit() writes the number to the row, or
\* the unique index refuses it (IntegrityError, handled), or the commit
\* raises another exception
Commit(w) ==
    /\ hook[w].pc = "commit"
    /\ \/ IF NumberTaken(w)
          THEN /\ orders' = orders
               /\ hook' = Rollback(w)
          ELSE /\ orders' = [orders EXCEPT ![hook[w].session] = hook[w].next_num]
               /\ hook' = [hook EXCEPT ![w].pc = "refresh"]
       \/ CommitFails(w)
    /\ UNCHANGED stripe_sessions
    /\ UNCHANGED quoteVars

\* lines 211-212: db.refresh(o) reads the row as it is now, and the return;
\* line 1094 formats the number the Order carries then
RefreshNumber(w) ==
    /\ hook[w].pc = "refresh"
    /\ hook' = [hook EXCEPT ![w].pc = "done", ![w].status = 200,
                            ![w].order_number = orders[hook[w].session]]
    /\ UNCHANGED <<stripe_sessions, orders>>
    /\ UNCHANGED quoteVars

\* the response of stripe_webhook; the execution serves the next delivery
Return(w) ==
    /\ hook[w].pc \in {"done", "raised"}
    /\ hook' = [hook EXCEPT ![w] = HookIdle]
    /\ UNCHANGED <<stripe_sessions, orders>>
    /\ UNCHANGED quoteVars

InitOrders ==
    /\ args = NoCall
    /\ ret = NoCall
    /\ MainIdle

\* The executions of stripe_webhook of this process at work on different
\* orders, the sessions being created by checkouts of another worker.
NextOrders ==
    \/ \E s \in Sessions \cup OtherSessions : other_checkout_paced(s)
    \/ \E s \in Sessions \cup OtherSessions : other_checkout_save(s)
    \/ \E w \in Hooks, s \in Sessions : DeliverAlone(w, s)
    \/ \E w \in Hooks, s \in OtherSessions : DeliverUnnumbered(w, s)
    \/ \E w \in Hooks : Find(w)
    \/ \E w \in Hooks : Insert(w)
    \/ \E w \in Hooks : Loaded(w)
    \/ \E w \in Hooks : Update(w)
    \/ \E w \in Hooks : Query(w)
    \/ \E w \in Hooks : Commit(w)
    \/ \E w \in Hooks : RefreshNumber(w)
    \/ \E w \in Hooks : Return(w)

SpecOrders == InitOrders /\ [][NextOrders]_vars

\* the binding of pricing_engine.cfg is drawn: as shipped (pricing_config),
\* or the module the handlers assign to (tuning_knobs)
InitRedelivery ==
    /\ args \in [module : {"pricing_config", "tuning_knobs"}]
    /\ ret = NoCall
    /\ MainIdle

\* POST /checkout/create on a threadpool thread, checkouts of another
\* worker, and deliveries of any session to any execution, redeliveries
\* included
NextRedelivery ==
    \/ \E r \in Requests, x \in CheckoutInputs : checkout_create(r, x)
    \/ \E r \in Requests : Fetch(r)
    \/ \E r \in Requests : Seed(r)
    \/ \E r \in Requests : Refresh(r)
    \/ \E r \in Requests : Acquire(r)
    \/ \E r \in Requests : RestoreBefore(r)
    \/ \E r \in Requests : Apply(r)
    \/ \E r \in Requests : Calc(r)
    \/ \E r \in Requests : RestoreAfter(r)
    \/ \E r \in Requests : Release(r)
    \/ \E r \in Requests : StripeCreate(r)
    \/ \E r \in Requests : SelectOrder(r)
    \/ \E r \in Requests : InsertOrder(r)
    \/ \E r \in Requests : Respond(r)
    \/ \E r \in Requests : Finish(r)
    \/ \E s \in Sessions : other_checkout_create(s)
    \/ \E s \in Sessions : other_checkout_save(s)
    \/ \E w \in Hooks, s \in Sessions : Deliver(w, s)
    \/ \E w \in Hooks : Find(w)
    \/ \E w \in Hooks : Insert(w)
    \/ \E w \in Hooks : Loaded(w)
    \/ \E w \in Hooks : Update(w)
    \/ \E w \in Hooks : Query(w)
    \/ \E w \in Hooks : Commit(w)
    \/ \E w \in Hooks : RefreshNumber(w)
    \/ \E w \in Hooks : Return(w)

SpecRedelivery == InitRedelivery /\ [][NextRedelivery]_vars

\* no two rows carry the same order number
OrderNumbersDistinct ==
    \A k1, k2 \in Numbered(orders) : k1 # k2 => orders[k1] # orders[k2]

\* a step that commits an order number to a row commits one more than the
\* largest number committed before it
CommitsNextNumber ==
    \A k \in Numbered(orders') :
        (k \notin DOMAIN orders \/ orders[k] # orders'[k])
            => orders'[k] = MaxOrderNumber(orders) + 1

\* C27: however the executions of stripe_webhook and _assign_order_number on
\* different orders interleave, no two orders ever hold the same order
\* number, and every number committed is one more than the largest number
\* committed before it.
C27_OrderNumbersUniqueAndConsecutive ==
    []OrderNumbersDistinct /\ [][CommitsNextNumber]_vars

\* C27 witness: an execution whose first number was taken by another
\* execution meanwhile has committed the number after it on its second
\* attempt, next to the other execution's order
C27_Witness ==
    \E w \in Hooks :
        /\ hook[w].pc = "done"
        /\ hook[w].attempt = 2
        /\ orders[hook[w].session] = 2
        /\ \E s \in Sessions \ {hook[w].session} : s \in DOMAIN orders /\ orders[s] = 1

\* SpecOrders with every execution of _assign_order_number taking its next
\* step eventually: the loop of lines 206-215 waits for nothing
FairSpecOrders ==
    SpecOrders /\ \A w \in Hooks : WF_vars(Query(w) \/ Commit(w) \/ RefreshNumber(w))

\* where an execution stands in _assign_order_number: never past the sixth
\* attempt; between attempts the Order carries no number; after the commit
\* the row carries the number, and after the return the Order carries the
\* number of its row
AssignSteps ==
    \A w \in Hooks :
        /\ hook[w].attempt <= Attempts
        /\ hook[w].pc = "query" => hook[w].order_number = None
        /\ hook[w].pc = "refresh" => orders[hook[w].session] = hook[w].next_num
        /\ hook[w].pc = "done" =>
              /\ hook[w].order_number # None
              /\ hook[w].order_number = orders[hook[w].session]

\* an execution that _assign_order_number has left with an exception
RaisedInAssign(w) == hook[w].pc = "raised" /\ hook[w].attempt > 0

\* every exception of _assign_order_number follows the sixth conflict and
\* leaves the Order and its row without number
AssignWithinSixAttempts ==
    /\ AssignSteps
    /\ \A w \in Hooks :
          RaisedInAssign(w) =>
              /\ hook[w].attempt = Attempts
              /\ hook[w].order_number = None
              /\ orders[hook[w].session] = None

\* the exceptions of _assign_order_number: HTTPException after the sixth
\* conflict, which leaves the Order and its row without number, or the
\* exception of a commit that failed otherwise, in any attempt, which leaves
\* the row without number and the refused number on the Order
AssignWithinSixAttemptsOrCommitFailure ==
    /\ AssignSteps
    /\ \A w \in Hooks :
          RaisedInAssign(w) =>
              /\ orders[hook[w].session] = None
              /\ hook[w].error \in {"HTTPException", "OperationalError"}
              /\ hook[w].error = "HTTPException" =>
                    /\ hook[w].attempt = Attempts
                    /\ hook[w].order_number = None
              /\ hook[w].error = "OperationalError" =>
                    /\ hook[w].order_number = hook[w].next_num
                    /\ hook[w].order_number # None

\* every execution that entered the loop of lines 206-215 leaves it
AssignEnds ==
    \A w \in Hooks : (hook[w].pc = "query") ~> (hook[w].pc \in {"done", "raised"})

OneOrderPerSession ==
    /\ \A r \in Requests :
          (req[r].pc \in {"respond", "done"} /\ req[r].session # 0)
              => req[r].session \in DOMAIN orders
    /\ \A w \in Hooks :
          hook[w].pc \in {"loaded", "update", "query", "commit", "refresh", "done"}
              => hook[w].session \in DOMAIN orders

\* a row that carries an order number keeps it
OrderNumberKept ==
    \A k \in Numbered(orders) : k \in DOMAIN orders' /\ orders'[k] = orders[k]

\* C29: after checkout creation and any number of deliveries and
\* redeliveries of checkout.session.completed for a session, there is exactly
\* one order of that session, and its order number, once assigned, never
\* changes.
C29_RedeliveryKeepsOrderAndNumber ==
    []OneOrderPerSession /\ [][OrderNumberKept]_vars

\* the requests and the stored override of FairSpec: a valid request, and a
\* configuration whose density cannot be converted, which makes line 486
\* raise
FairInputs == { QuoteInputs(1, "304", 250, 5, TRUE, 21) }

FairOverrides ==
    { [material_enabled |-> ("304" :> TRUE @@ "Monel" :> TRUE),
       density_lb_per_in3 |-> ("304" :> NotANumber)] }

FairNext ==
    \/ \E r \in Requests, x \in FairInputs : Submit(r, x)
    \/ \E r \in Requests : Fetch(r)
    \/ \E r \in Requests : Seed(r)
    \/ \E r \in Requests : Refresh(r)
    \/ \E r \in Requests : Acquire(r)
    \/ \E r \in Requests : RestoreBefore(r)
    \/ \E r \in Requests : Apply(r)
    \/ \E r \in Requests : Calc(r)
    \/ \E r \in Requests : RestoreAfter(r)
    \/ \E r \in Requests : Release(r)
    \/ \E r \in Requests : Respond(r)
    \/ \E r \in Requests : Finish(r)
    \/ \E a \in Admins : get_active_config_public(a)
    \/ \E a \in Admins : admin_get_config(a)
    \/ \E a \in Admins, payload \in FairOverrides : admin_put_config(a, payload)
    \/ \E a \in Admins : admin_reset_config(a)
    \/ \E a \in Admins : ConfigCommit(a)
    \/ \E a \in Admins : ConfigRefresh(a)
    \/ \E a \in Admins : ConfigReturn(a)

\* The service with every thread running on: a request thread that can take
\* its next step takes it eventually, and a thread waiting for _CFG_LOCK gets
\* it if the lock stays free.  threading.Lock (line 82) promises no order
\* among its waiters, so nothing more is assumed of Acquire than weak
\* fairness.  Calc(r) is enabled exactly while r is at "calc" and is the only
\* step that leaves it, so its weak fairness is that r is away from "calc"
\* again and again.
FairSpec ==
    /\ Init
    /\ [][FairNext]_vars
    /\ \A r \in Requests :
          /\ WF_vars(Fetch(r) \/ Seed(r) \/ Refresh(r) \/ RestoreBefore(r) \/ Apply(r)
                        \/ RestoreAfter(r) \/ Release(r) \/ Respond(r))
          /\ []<>(req[r].pc # "calc")
          /\ WF_vars(Acquire(r))

\* the lock is held by a request inside the with block or by nobody
LockHeldOnlyInside ==
    /\ lock \in InCriticalSection \cup {0}
    /\ \A r \in InCriticalSection : lock = r

\* C30 (as stated, refuted): _CFG_LOCK is released on every exit of
\* _calculate_quote_with_db_knobs, also when applying the configuration or
\* the calculation raises, so that every request waiting for the lock
\* acquires it and gets its response.
C30_LockReleasedAndWaitersServed ==
    /\ []LockHeldOnlyInside
    /\ \A r \in Requests : (req[r].pc = "acquire") ~> (lock = r)
    /\ \A r \in Requests : (req[r].pc = "acquire") ~> (req[r].pc = "done")

\* C30 (amended): _CFG_LOCK is released on every exit of
\* _calculate_quote_with_db_knobs, also when applying the configuration or
\* the calculation raises: a request that holds the lock releases it and gets
\* its response, no failed request keeps it, and while a request waits the
\* lock is taken again and again by some request.
C30_LockReleasedAndSomeWaiterServed ==
    /\ []LockHeldOnlyInside
    /\ \A r \in Requests : (lock = r) ~> (lock = 0)
    /\ \A r \in Requests : (lock = r) ~> (req[r].pc = "done")
    /\ \A r \in Requests : (req[r].pc = "acquire") ~> (lock # 0)

\* C30 witness: a request whose configuration could not be applied has its
\* error response while the other request, which waited for the lock, holds
\* it
C30_Witness ==
    \E r1, r2 \in Requests :
        /\ req[r1].pc \in {"respond", "done"}
        /\ req[r1].outcome.kind = "ValueError"
        /\ req[r1].outcome.msg = "could not convert string to float"
        /\ lock = r2
        /\ req[r2].pc = "calc"

====
